---- MODULE Spec2Model ----
(***************************************************************************)
(* Model of sesmon's per-device monitoring engine (cmd/sesmon/monitor.go): *)
(* the polling loop with retry, failure accounting and back-off, the SES   *)
(* parser and diff engine, alert de-duplication and dispatch, and the      *)
(* one-shot stop signal.                                                   *)
(*                                                                         *)
(* Conventions.                                                            *)
(*  - A Go string is a sequence of characters (one-character TLA+ strings).*)
(*    Constant pieces of fmt.Sprintf format strings are kept as one token  *)
(*    each (" status_txt=" and the like); the variable pieces are          *)
(*    character sequences.                                                 *)
(*  - A Go pointer to an int, string or struct is a sequence of length 0  *)
(*    (nil) or 1 (pointing at the value).                                  *)
(*  - A map[string]Result is a function from keys to Result records.       *)
(***************************************************************************)
EXTENDS Integers, Sequences, FiniteSets, TLC

\* ------------------------------------------------------------------ bounds
\* Largest number of polls one monitor begins in a run.
MaxPolls == 3
\* Largest configured poll_backoff_after.
MaxBackoffAfter == 2
\* Largest configured poll_attempts.
MaxPollAttempts == 2
\* Largest number of Stop() calls made from outside the monitor's own task.
MaxStopCalls == 2

\* ------------------------------------------------------------ Go pointers
NilPtr == <<>>
ptr(v) == <<v>>
IsNil(p) == Len(p) = 0
Deref(p) == p[1]

\* ------------------------------------------------------------- Go strings
WhiteSpace == {" ", "\t", "\n", "\r"}

UpperChars == <<"A","B","C","D","E","F","G","H","I","J","K","L","M",
                "N","O","P","Q","R","S","T","U","V","W","X","Y","Z">>
LowerChars == <<"a","b","c","d","e","f","g","h","i","j","k","l","m",
                "n","o","p","q","r","s","t","u","v","w","x","y","z">>

\* Simple case folding of one (ASCII) character, as strings.EqualFold applies it.
FoldChar(c) ==
    IF \E i \in 1..Len(UpperChars) : UpperChars[i] = c
    THEN LowerChars[CHOOSE i \in 1..Len(UpperChars) : UpperChars[i] = c]
    ELSE c

\* strings.EqualFold
EqualFold(s, t) ==
    /\ Len(s) = Len(t)
    /\ \A i \in 1..Len(s) : FoldChar(s[i]) = FoldChar(t[i])

\* strings.TrimSpace
RECURSIVE TrimLeft(_)
TrimLeft(s) ==
    IF s # <<>> /\ Head(s) \in WhiteSpace THEN TrimLeft(Tail(s)) ELSE s

RECURSIVE TrimRight(_)
TrimRight(s) ==
    IF s # <<>> /\ s[Len(s)] \in WhiteSpace
    THEN TrimRight(SubSeq(s, 1, Len(s) - 1))
    ELSE s

TrimSpace(s) == TrimRight(TrimLeft(s))

DigitChars == <<"0","1","2","3","4","5","6","7","8","9">>

\* strconv.Itoa (also fmt's %d): decimal digits, "-" in front of a negative.
RECURSIVE ItoaNat(_)
ItoaNat(n) ==
    IF n < 10 THEN <<DigitChars[n + 1]>>
    ELSE ItoaNat(n \div 10) \o <<DigitChars[(n % 10) + 1]>>

Itoa(n) == IF n < 0 THEN <<"-">> \o ItoaNat(0 - n) ELSE ItoaNat(n)

\* fmt's %q of a string: double quotes around it, the quote and the
\* backslash escaped (the characters of the model need no other escape).
RECURSIVE EscapeQ(_)
EscapeQ(s) ==
    IF s = <<>> THEN <<>>
    ELSE (IF Head(s) \in {"\"", "\\"} THEN <<"\\", Head(s)>> ELSE <<Head(s)>>)
         \o EscapeQ(Tail(s))

Quote(s) == <<"\"">> \o EscapeQ(s) \o <<"\"">>

\* strings.Join
RECURSIVE Join(_, _)
Join(lines, sep) ==
    IF lines = <<>> THEN <<>>
    ELSE IF Len(lines) = 1 THEN lines[1]
    ELSE lines[1] \o sep \o Join(Tail(lines), sep)

\* ----------------------------------------------------------------- util.go
fne(a, b) == IF a # <<>> THEN a ELSE b

\* A plausible slip: no fallback to the second integer.
fnz_FirstOnly(a, b) == a

fnz(a, b) == IF a # 0 THEN a ELSE b

ptrIntEqual(a, b) ==
    IF IsNil(a) /\ IsNil(b) THEN TRUE
    ELSE IF IsNil(a) \/ IsNil(b) THEN FALSE
    ELSE Deref(a) = Deref(b)

ptrStrEqualFold(a, b) ==
    IF IsNil(a) /\ IsNil(b) THEN TRUE
    ELSE IF IsNil(a) \/ IsNil(b) THEN FALSE
    ELSE EqualFold(Deref(a), Deref(b))

fmtPtrInt(p, e) == IF IsNil(p) THEN e ELSE Itoa(Deref(p))

fmtPtrStr(p, e) == IF IsNil(p) THEN e ELSE Deref(p)

fmtPtrQStr(p, e) == IF IsNil(p) THEN e ELSE Quote(Deref(p))

\* ------------------------------------------------- structs.go, the parser
\* keyFor: fmt.Sprintf("%d#%d", r.Type, r.TypeNum)
keyFor(r) == Itoa(r.Type) \o <<"#">> \o Itoa(r.TypeNum)

\* The zero value of Result (Result{}).
ZeroResult ==
    [Type |-> 0, TypeNum |-> 0, TypeDesc |-> NilPtr, Status |-> NilPtr,
     StatusDesc |-> NilPtr, PrdFail |-> NilPtr, Disabled |-> NilPtr,
     Swap |-> NilPtr, Temperature |-> NilPtr, Voltage |-> NilPtr,
     Amperage |-> NilPtr]

\* The element loop of parseSES reaches `continue` for this element.
ElementSkipped(el) ==
    \/ (~IsNil(el.ElementType) /\ IsNil(Deref(el.ElementType).I))
    \/ IsNil(el.ElementNumber)

\* The element loop of parseSES dereferences a nil pointer on this element
\* (a temperature, voltage or current object without its value field).
ElementPanics(el) ==
    /\ ~ElementSkipped(el)
    /\ ~IsNil(el.StatusDescriptor)
    /\ LET sd == Deref(el.StatusDescriptor) IN
        \/ (~IsNil(sd.Temperature) /\ IsNil(Deref(sd.Temperature).Meaning))
        \/ (~IsNil(sd.Voltage) /\ IsNil(Deref(sd.Voltage).ValueInVolts))
        \/ (~IsNil(sd.Current) /\ IsNil(Deref(sd.Current).ValueInAmps))

\* The Result the element loop of parseSES builds for an element it neither
\* skips nor panics on.
ElementResult(el) ==
    LET r1 == IF IsNil(el.ElementType) THEN ZeroResult
              ELSE LET et == Deref(el.ElementType) IN
                   [ZeroResult EXCEPT
                      !.Type = Deref(et.I),
                      !.TypeDesc = IF IsNil(et.Meaning) THEN NilPtr
                                   ELSE ptr(TrimSpace(Deref(et.Meaning)))]
        r2 == [r1 EXCEPT !.TypeNum = Deref(el.ElementNumber)]
    IN  IF IsNil(el.StatusDescriptor) THEN r2
        ELSE LET sd == Deref(el.StatusDescriptor) IN
             [r2 EXCEPT
                !.Status = IF IsNil(sd.Status) THEN NilPtr
                           ELSE Deref(sd.Status).I,
                !.StatusDesc =
                    IF IsNil(sd.Status) \/ IsNil(Deref(sd.Status).Meaning)
                    THEN NilPtr
                    ELSE ptr(TrimSpace(Deref(Deref(sd.Status).Meaning))),
                !.PrdFail = sd.PrdFail,
                !.Disabled = sd.Disabled,
                !.Swap = sd.Swap,
                !.Temperature =
                    IF IsNil(sd.Temperature) THEN NilPtr
                    ELSE ptr(TrimSpace(Deref(Deref(sd.Temperature).Meaning))),
                !.Voltage =
                    IF IsNil(sd.Voltage) THEN NilPtr
                    ELSE ptr(TrimSpace(Deref(Deref(sd.Voltage).ValueInVolts))),
                !.Amperage =
                    IF IsNil(sd.Current) THEN NilPtr
                    ELSE ptr(TrimSpace(Deref(Deref(sd.Current).ValueInAmps)))]

\* The map of no entries (make(map[string]Result)).
EmptyMap == <<>>

\* The loop of parseSES over the element list, from the map built so far.
\* The outcome is [panic, m].
RECURSIVE ParseElements(_, _)
ParseElements(els, m) ==
    IF els = <<>> THEN [panic |-> FALSE, m |-> m]
    ELSE LET el == Head(els) IN
         IF ElementSkipped(el) THEN ParseElements(Tail(els), m)
         ELSE IF ElementPanics(el) THEN [panic |-> TRUE, m |-> m]
         ELSE LET r == ElementResult(el) IN
              ParseElements(Tail(els), (keyFor(r) :> r) @@ m)

\* parseSES. A document is [valid, elements]: whether json.Unmarshal into
\* Root succeeds, and the element list it yields. The outcome is
\* [err, panic, m].
parseSES(doc) ==
    IF ~doc.valid THEN [err |-> TRUE, panic |-> FALSE, m |-> EmptyMap]
    ELSE LET out == ParseElements(doc.elements, EmptyMap) IN
         [err |-> FALSE, panic |-> out.panic, m |-> out.m]

\* -------------------------------------------------------- the diff engine
\* A plausible slip: the swap flag is left out of the comparison.
rowsEqual_NoSwap(a, b) ==
    /\ ptrIntEqual(a.Status, b.Status)
    /\ ptrStrEqualFold(a.StatusDesc, b.StatusDesc)
    /\ ptrIntEqual(a.PrdFail, b.PrdFail)
    /\ ptrIntEqual(a.Disabled, b.Disabled)

\* A plausible slip: the temperature takes part in the comparison.
rowsEqual_WithTemperature(a, b) ==
    /\ ptrIntEqual(a.Status, b.Status)
    /\ ptrStrEqualFold(a.StatusDesc, b.StatusDesc)
    /\ ptrIntEqual(a.PrdFail, b.PrdFail)
    /\ ptrIntEqual(a.Disabled, b.Disabled)
    /\ ptrIntEqual(a.Swap, b.Swap)
    /\ ptrStrEqualFold(a.Temperature, b.Temperature)

\* rowsEqual
rowsEqual(a, b) ==
    /\ ptrIntEqual(a.Status, b.Status)
    /\ ptrStrEqualFold(a.StatusDesc, b.StatusDesc)
    /\ ptrIntEqual(a.PrdFail, b.PrdFail)
    /\ ptrIntEqual(a.Disabled, b.Disabled)
    /\ ptrIntEqual(a.Swap, b.Swap)

\* The Change rowsDiff builds for key k.
ChangeFor(k, prev, curr) ==
    LET pok == k \in DOMAIN prev
        cok == k \in DOMAIN curr
        p == IF pok THEN prev[k] ELSE ZeroResult
        c == IF cok THEN curr[k] ELSE ZeroResult
    IN  [ID |-> k,
         Type |-> fnz(c.Type, p.Type),
         TypeNum |-> fnz(c.TypeNum, p.TypeNum),
         TypeDesc |-> IF ~IsNil(c.TypeDesc) \/ ~IsNil(p.TypeDesc)
                      THEN ptr(fne(fmtPtrStr(c.TypeDesc, <<>>),
                                   fmtPtrStr(p.TypeDesc, <<>>)))
                      ELSE NilPtr,
         Before |-> IF pok THEN ptr(p) ELSE NilPtr,
         After |-> IF cok THEN ptr(c) ELSE NilPtr]

\* A plausible slip: two rows differ as soon as any field differs, the
\* metrics (temperature, voltage, amperage) and the type text included.
rowsDiff_WholeRows(prev, curr) ==
    { ChangeFor(k, prev, curr) :
        k \in { x \in (DOMAIN prev) \cup (DOMAIN curr) :
                  \/ x \notin DOMAIN prev
                  \/ x \notin DOMAIN curr
                  \/ prev[x] # curr[x] } }

\* rowsDiff: the changes between two maps. The slice the code returns is in
\* map iteration order, which Go leaves unspecified; it is a set here and
\* changesAsText orders it.
rowsDiff(prev, curr) ==
    { ChangeFor(k, prev, curr) :
        k \in { x \in (DOMAIN prev) \cup (DOMAIN curr) :
                  \/ x \notin DOMAIN prev
                  \/ x \notin DOMAIN curr
                  \/ ~rowsEqual(prev[x], curr[x]) } }

\* The less function given to sort.Slice in changesAsText.
ChangeLess(a, b) ==
    IF a.Type = b.Type THEN a.TypeNum < b.TypeNum ELSE a.Type < b.Type

\* sort.Slice of the changes. Changes of one diff never tie on
\* (Type, TypeNum), so the order is determined.
RECURSIVE SortChanges(_)
SortChanges(S) ==
    IF S = {} THEN <<>>
    ELSE LET first == CHOOSE c \in S : \A d \in S : ~ChangeLess(d, c)
         IN  <<first>> \o SortChanges(S \ {first})

\* The "status=... amp=..." text of one side of a change.
SideText(side) ==
    IF IsNil(side) THEN <<"-">>
    ELSE LET r == Deref(side) IN
         <<"status=">> \o fmtPtrInt(r.Status, <<"-">>)
         \o <<" status_txt=">> \o fmtPtrQStr(r.StatusDesc, <<"-">>)
         \o <<" prdfail=">> \o fmtPtrInt(r.PrdFail, <<"-">>)
         \o <<" disabled=">> \o fmtPtrInt(r.Disabled, <<"-">>)
         \o <<" swap=">> \o fmtPtrInt(r.Swap, <<"-">>)
         \o <<" temp=">> \o fmtPtrQStr(r.Temperature, <<"-">>)
         \o <<" volt=">> \o fmtPtrQStr(r.Voltage, <<"-">>)
         \o <<" amp=">> \o fmtPtrQStr(r.Amperage, <<"-">>)

\* The line changesAsText formats for one change.
ChangeLine(ch) ==
    <<"[element=">> \o Quote(ch.ID)
    \o <<" type=">> \o fmtPtrQStr(ch.TypeDesc, <<"-">>)
    \o <<" number=">> \o Itoa(ch.TypeNum)
    \o <<" / Before: (">> \o SideText(ch.Before)
    \o <<") / After: (">> \o SideText(ch.After) \o <<")]">>

changesAsText(changes) ==
    LET sorted == SortChanges(changes)
    IN  [i \in 1..Len(sorted) |-> ChangeLine(sorted[i])]

buildMessage(lines) == Join(lines, <<" ">>)

\* hex.EncodeToString(sha256.Sum256(msg)): collision-free, never empty.
\* The digest is kept as the tagged message it is the digest of.
Sha256Hex(msg) == <<"sha256:">> \o msg

\* ------------------------------------------------- what a fetch can return
S_Enclosure == <<"E","n","c">>
S_OK == <<"O","K">>
S_okPadded == <<" ","o","k","\n">>
S_Critical == <<"C","r","i","t">>
S_25C == <<"2","5"," ","C">>
S_30C == <<"3","0"," ","C">>

\* {"element_type":{"i":t,"meaning":"Enc"},"element_number":n,
\*  "status_descriptor":{"status":{"i":st,"meaning":desc},
\*                       "temperature":{"meaning":temp}}}
EnclosureElement(t, n, st, desc, temp) ==
    [ElementType |-> ptr([I |-> ptr(t), Meaning |-> ptr(S_Enclosure)]),
     ElementNumber |-> ptr(n),
     StatusDescriptor |->
        ptr([Status |-> ptr([I |-> ptr(st), Meaning |-> ptr(desc)]),
             PrdFail |-> NilPtr, Disabled |-> NilPtr, Swap |-> NilPtr,
             Temperature |-> ptr([I |-> NilPtr, Meaning |-> temp]),
             Voltage |-> NilPtr, Current |-> NilPtr])]

\* Element 15#0 reporting status 1 "OK" at 25 C.
DocOK == [valid |-> TRUE,
          elements |-> <<EnclosureElement(15, 0, 1, S_OK, ptr(S_25C))>>]
\* The same element, its status text in another case and padded, at 30 C.
DocOkWarm == [valid |-> TRUE,
              elements |-> <<EnclosureElement(15, 0, 1, S_okPadded, ptr(S_30C))>>]
\* The same element reporting status 2 "Crit".
DocCritical == [valid |-> TRUE,
                elements |-> <<EnclosureElement(15, 0, 2, S_Critical, ptr(S_25C))>>]
\* An empty element list.
DocEmpty == [valid |-> TRUE, elements |-> <<>>]
\* Valid JSON that json.Unmarshal cannot decode into Root.
DocUndecodable == [valid |-> FALSE, elements |-> <<>>]
\* A temperature object without its meaning field.
DocNoMeaning == [valid |-> TRUE,
                 elements |-> <<EnclosureElement(15, 0, 1, S_OK, NilPtr)>>]

\* poll's ret outside a poll: nothing fetched.
NoDoc == [valid |-> FALSE, elements |-> <<>>]

\* The documents a successful fetch returns in the model.
PollDocs == {DocOK, DocOkWarm, DocCritical, DocEmpty, DocUndecodable, DocNoMeaning}

\* {"element_type":{"i":t[,"meaning":m]},"element_number":n,
\*  "status_descriptor":{"status":{"i":1,"meaning":"OK"}
\*     [,"temperature":{"meaning":temp}][,"voltage":{"value_in_volts":volt}]
\*     [,"current":{"value_in_amps":amp}]}}
MetricElement(t, n, m, temp, volt, amp) ==
    [ElementType |-> ptr([I |-> ptr(t), Meaning |-> m]),
     ElementNumber |-> ptr(n),
     StatusDescriptor |->
        ptr([Status |-> ptr([I |-> ptr(1), Meaning |-> ptr(S_OK)]),
             PrdFail |-> NilPtr, Disabled |-> NilPtr, Swap |-> NilPtr,
             Temperature |-> IF IsNil(temp) THEN NilPtr
                             ELSE ptr([I |-> NilPtr, Meaning |-> temp]),
             Voltage |-> IF IsNil(volt) THEN NilPtr
                         ELSE ptr([RawValue |-> NilPtr, ValueInVolts |-> volt]),
             Current |-> IF IsNil(amp) THEN NilPtr
                         ELSE ptr([RawValue |-> NilPtr, ValueInAmps |-> amp])])]

\* Element 15#0 as in DocOK, without the type's text, at 30 C, with a
\* voltage and a current.
DocOkMetrics ==
    [valid |-> TRUE,
     elements |-> <<MetricElement(15, 0, NilPtr, ptr(S_30C),
                                  ptr(<<"1","2"," ","V">>), ptr(<<"5"," ","A">>))>>]
\* Element 15#0 as in DocOK, without temperature, voltage and current.
DocOkBare ==
    [valid |-> TRUE,
     elements |-> <<MetricElement(15, 0, ptr(S_Enclosure), NilPtr, NilPtr, NilPtr)>>]

\* The documents of a device whose element keeps its status while its
\* metrics come, go and change, until it turns critical.
MetricDocs == {DocOK, DocOkMetrics, DocOkBare, DocCritical}

\* Every document of the model.
AllDocs == PollDocs \cup MetricDocs

\* ---------------------------------------------------------- monitor state
VARIABLES
    cfg,              \* the merged DeviceMonitorConfig, and the collaborators
    pc,               \* where the monitor's task is
    ctxDone,          \* the context is cancelled
    stop,             \* state.stop is closed
    once,             \* state.once has run
    done,             \* state.done is closed
    pollFailures,     \* state.pollFailures
    lastAlertHash,    \* state.lastAlertHash
    previousResults,  \* state.previousResults: nil or the map
    ret,              \* poll's ret: the fetched document
    attempt,          \* withRetries' attempt
    tasks,            \* how many notifier tasks were started, by kind
    lastTask,         \* the notifier task started last: nil or the task
    changeReports,    \* change-*.json files written
    currentFiles,     \* which of current.json, current_parsed.json exist
    polls,            \* polls begun
    stopCalls,        \* Stop() calls made from outside the monitor's task
    stopCloses,       \* close(state.stop) executions
    doneCloses,       \* close(state.done) executions
    panicked,         \* a panic was raised (and recovered) in the monitor's task
    closePanic,       \* a close of an already closed channel was executed
    counted,          \* failed polls pollFailure accounted
    sinceReset,       \* of those, the ones since the last successful poll or elapsed back-off
    succeeded,        \* some poll returned nil
    plainLogs,        \* "Error polling device [i/n]" lines without back-off
    backoffLogs,      \* back-off (or stopping) log lines
    backoffWaits,     \* back-off waits begun
    lastOutcome,      \* how the last poll ended
    lastTaskRan,      \* the notifier task started last has begun to execute
    hashAtRun,        \* state.lastAlertHash as it was when that task began
    taskOutcome,      \* that task: not begun (""), running, or how Notify ended
    notifyArgs        \* the arguments that task's Notify handed to the script

\* ------------------------------------------------- the rest of the program
VARIABLES
    files,            \* the output directory: file name -> content
    now,              \* time.Now(), in clock ticks of half a second
    wlog,             \* history: path, data and error of every writeChangeReport
    matches,          \* NewDeviceFinder: the sas_address files of the globbed nodes
    finderPc,         \* NewDeviceFinder: where it is
    mi,               \* NewDeviceFinder: how many of the matches the loop has seen
    devices,          \* NewDeviceFinder: its devices map, DeviceFinder.devices
    ignored,          \* NewDeviceFinder: its ignored set
    config,           \* NewProgram: config.Devices
    finder,           \* NewProgram: finder, nil or the resolver's index
    di,               \* NewProgram: the loop's index i
    seenOutputDirs,   \* NewProgram: seenOutputDirs
    monitors,         \* Program.monitors: device path -> the monitor built
    built,            \* NewProgram: running, returned a Program or an error
    progPc,           \* Program.Start was called
    mpc,              \* per monitor: where its task is
    mstop,            \* per monitor: state.stop is closed
    mdoneCloses,      \* per monitor: close(state.done) executions
    mpanicked,        \* per monitor: a panic was raised in its loop
    wgDone,           \* per monitor: the wg.Go function has returned
    pdone,            \* close(p.done) executions
    mstate,           \* per deviceMonitorState: pollFailures, lastAlertHash, previousResults
    mcfg,             \* per monitor: PollBackoffAfter, PollBackoffStopMonitor
    mpolls,           \* per monitor: the polls it began
    pdoc,             \* parseSES: the document it is called with
    ppc,              \* parseSES: idle, called or returned
    pout,             \* parseSES: its outcome
    dprev,            \* rowsDiff: prev
    dcurr,            \* rowsDiff: curr
    dpc,              \* rowsDiff: idle, called or returned
    dout,             \* rowsDiff: the changes it returned
    rcfg,             \* Run: Attempts, ExpectJSON, and whether fn is nil
    rctx,             \* Run: ctx is cancelled
    rpc,              \* withRetries: where it is
    ri,               \* withRetries: iterations of its loop begun
    rattempt,         \* withRetries: attempt
    re,               \* withRetries: e
    rstdout,          \* Run: stdout
    rstderr,          \* Run: stderr
    rret,             \* withRetries: what it returned
    rrun,             \* Run: what it returned
    rcalls,           \* the invocations of fn so far, each with its outcome
    rwaits,           \* the waits withRetries entered
    rlogged,          \* the calls of onAttemptErr
    tmap,             \* the round trip: the Result map
    tpc,              \* the round trip: idle, start, written or parsed
    tjson,            \* the round trip: the raw field of current_parsed.json
    tback             \* the round trip: what parseSES made of it

\* The variables of one device monitor.
monitorVars == <<cfg, pc, ctxDone, stop, once, done, pollFailures, lastAlertHash,
                 previousResults, ret, attempt, tasks, lastTask, changeReports,
                 currentFiles, polls, stopCalls, stopCloses, doneCloses, panicked,
                 closePanic, counted, sinceReset, succeeded, plainLogs, backoffLogs,
                 backoffWaits, lastOutcome, lastTaskRan, hashAtRun,
                 taskOutcome, notifyArgs>>
\* The variables of write.go.
writeVars == <<files, now, wlog>>
\* The variables of NewDeviceFinder.
finderVars == <<matches, finderPc, mi, devices, ignored>>
\* The variables of NewProgram.
buildVars == <<config, finder, di, seenOutputDirs, monitors, built>>
\* The variables of a started Program.
progVars == <<progPc, mpc, mstop, mdoneCloses, mpanicked, wgDone, pdone,
              mstate, mcfg, mpolls>>
\* The variables of a call of parseSES.
parseVars == <<pdoc, ppc, pout>>
\* The variables of a call of rowsDiff.
diffVars == <<dprev, dcurr, dpc, dout>>
\* The variables of the calls of single functions.
\* The variables of a call of RetryCommandRunner.Run (of withRetries).
retryVars == <<rcfg, rctx, rpc, ri, rattempt, re, rstdout, rstderr, rret, rrun,
               rcalls, rwaits, rlogged>>
\* The variables of a parsed snapshot written and parsed again.
tripVars == <<tmap, tpc, tjson, tback>>
pureVars == <<parseVars, diffVars, retryVars, tripVars>>
\* What no step of a device monitor touches.
otherVars == <<writeVars, finderVars, buildVars, progVars, pureVars>>

vars == <<monitorVars, otherVars>>

\* The variables of the one-shot stop signal.
stopVars == <<stop, once, stopCloses, closePanic>>
\* The counters of pollFailure.
failVars == <<pollFailures, counted, sinceReset, plainLogs, backoffLogs, backoffWaits>>
\* The alerting state of poll.
alertVars == <<lastAlertHash, previousResults, changeReports, currentFiles>>
\* The notifier tasks.
taskVars == <<tasks, lastTask, lastTaskRan, hashAtRun, taskOutcome, notifyArgs>>
\* What only calls from outside the monitor's task change.
outerVars == <<cfg, ctxDone, stopCalls>>

\* The configurations a monitor is built with (mergeDeviceMonitorConfig and
\* NewDeviceMonitor's collaborators). OutputDir says whether an output
\* directory is set, notifier whether a notifier is given, fsysWritable
\* whether the filesystem accepts the monitor's writes (all of a run's or
\* none), device the documents the device answers a fetch with.
Configs ==
    { c \in [PollAttempts : {MaxPollAttempts},
             PollBackoffAfter : 1..MaxBackoffAfter,
             PollBackoffNotify : BOOLEAN,
             PollBackoffStopMonitor : BOOLEAN,
             OutputDir : BOOLEAN,
             fsysWritable : BOOLEAN,
             notifier : BOOLEAN,
             device : {PollDocs}] : c.OutputDir \/ c.fsysWritable }

\* newDeviceMonitorState and NewDeviceMonitor, for a monitor built with one
\* of the configurations cs.
MonitorInit(cs) ==
    /\ cfg \in cs
    /\ pc = "idle"
    /\ ctxDone = FALSE
    /\ stop = FALSE
    /\ once = FALSE
    /\ done = FALSE
    /\ pollFailures = 0
    /\ lastAlertHash = <<>>
    /\ previousResults = NilPtr
    /\ ret = NoDoc
    /\ attempt = 0
    /\ tasks = [alert |-> 0, backoff |-> 0]
    /\ lastTask = NilPtr
    /\ changeReports = 0
    /\ currentFiles = {}
    /\ polls = 0
    /\ stopCalls = 0
    /\ stopCloses = 0
    /\ doneCloses = 0
    /\ panicked = FALSE
    /\ closePanic = FALSE
    /\ counted = 0
    /\ sinceReset = 0
    /\ succeeded = FALSE
    /\ plainLogs = 0
    /\ backoffLogs = 0
    /\ backoffWaits = 0
    /\ lastOutcome = "none"
    /\ lastTaskRan = FALSE
    /\ hashAtRun = <<>>
    /\ taskOutcome = ""
    /\ notifyArgs = <<>>

\* Nothing was written and the clock is at its start.
WriteInit ==
    /\ files = <<>>
    /\ now = 0
    /\ wlog = <<>>

\* parseSES is not being called.
ParseIdle ==
    /\ pdoc = NoDoc
    /\ ppc = "idle"
    /\ pout = <<>>

\* rowsDiff is not being called.
DiffIdle ==
    /\ dprev = EmptyMap
    /\ dcurr = EmptyMap
    /\ dpc = "idle"
    /\ dout = {}

\* No single function is being called.
\* The values of withRetries' and Run's locals before their first
\* assignment, and nothing returned yet.
RetryLocals ==
    /\ ri = 0
    /\ rattempt = 0
    /\ re = "nil"
    /\ rstdout = <<>>
    /\ rstderr = <<>>
    /\ rret = <<>>
    /\ rrun = <<>>
    /\ rcalls = <<>>
    /\ rwaits = 0
    /\ rlogged = 0

\* No command is being run.
RetryIdle ==
    /\ rcfg = [Attempts |-> 0, ExpectJSON |-> FALSE, fnNil |-> FALSE]
    /\ rctx = FALSE
    /\ rpc = "idle"
    /\ RetryLocals

\* No snapshot is being parsed again.
TripIdle ==
    /\ tmap = EmptyMap
    /\ tpc = "idle"
    /\ tjson = <<>>
    /\ tback = <<>>

PureIdle == ParseIdle /\ DiffIdle /\ RetryIdle /\ TripIdle

\* No resolver is being built.
FinderIdle ==
    /\ matches = <<>>
    /\ finderPc = "idle"
    /\ mi = 0
    /\ devices = <<>>
    /\ ignored = {}

\* No Program is being built or run.
ProgramIdle ==
    /\ config = <<>>
    /\ finder = NilPtr
    /\ di = 0
    /\ seenOutputDirs = {}
    /\ monitors = <<>>
    /\ built = "idle"
    /\ progPc = "idle"
    /\ mpc = <<>>
    /\ mstop = <<>>
    /\ mdoneCloses = <<>>
    /\ mpanicked = <<>>
    /\ wgDone = <<>>
    /\ pdone = 0
    /\ mstate = <<>>
    /\ mcfg = <<>>
    /\ mpolls = <<>>

\* One device monitor on its own, built with any of the configurations.
Init ==
    /\ MonitorInit(Configs)
    /\ WriteInit
    /\ PureIdle
    /\ FinderIdle
    /\ ProgramIdle

\* ------------------------------------------------------------------- Stop
\* A plausible slip: close(state.stop) without the sync.Once around it.
Stop_NoOnce ==
    /\ once' = TRUE
    /\ stop' = TRUE
    /\ stopCloses' = stopCloses + 1
    /\ closePanic' = (closePanic \/ stop)

\* DeviceMonitor.Stop: once.Do(close(state.stop)). Closing a closed channel
\* panics.
Stop ==
    IF once THEN UNCHANGED stopVars
    ELSE /\ once' = TRUE
         /\ stop' = TRUE
         /\ stopCloses' = stopCloses + 1
         /\ closePanic' = (closePanic \/ stop)

\* What a call from outside leaves alone in the monitor's task.
TaskFrame ==
    /\ UNCHANGED <<pc, done, ret, attempt, polls, doneCloses, panicked,
                   succeeded, lastOutcome>>
    /\ UNCHANGED failVars
    /\ UNCHANGED alertVars
    /\ UNCHANGED taskVars
    /\ UNCHANGED otherVars

\* Stop() called from outside the monitor's task (Program.Stop, a test).
StopCall ==
    /\ stopCalls < MaxStopCalls
    /\ stopCalls' = stopCalls + 1
    /\ Stop
    /\ UNCHANGED <<cfg, ctxDone>>
    /\ TaskFrame

\* The context given to Start is cancelled.
Cancel ==
    /\ ~ctxDone
    /\ ctxDone' = TRUE
    /\ UNCHANGED <<cfg, stopCalls>>
    /\ UNCHANGED stopVars
    /\ TaskFrame

\* ------------------------------------------------------------------ Start
\* What the monitor's task leaves alone while it fetches.
FetchFrame ==
    /\ UNCHANGED <<done, polls, doneCloses, panicked, succeeded>>
    /\ UNCHANGED outerVars
    /\ UNCHANGED stopVars
    /\ UNCHANGED failVars
    /\ UNCHANGED <<lastAlertHash, changeReports, currentFiles>>
    /\ UNCHANGED taskVars
    /\ UNCHANGED otherVars

\* DeviceMonitor.Start: the task begins with a poll, whatever stop and ctx are.
Start ==
    /\ pc = "idle"
    /\ pc' = "fetch"
    /\ polls' = polls + 1
    /\ UNCHANGED <<ret, attempt, lastOutcome>>
    /\ UNCHANGED <<done, doneCloses, panicked, succeeded>>
    /\ UNCHANGED outerVars
    /\ UNCHANGED stopVars
    /\ UNCHANGED failVars
    /\ UNCHANGED alertVars
    /\ UNCHANGED taskVars
    /\ UNCHANGED otherVars

\* ------------------------------------------- fetchFromDevice, withRetries
\* A plausible slip: the deferred store of currentResults is registered at
\* the top of poll, so a failed poll stores its nil map.
ResultsAfterError_Stored(prev) == NilPtr

\* state.previousResults after poll returned an error: both error returns
\* come before the deferred store is registered.
ResultsAfterError(prev) == prev

\* poll returns an error (from the fetch or from the parse): Start's task
\* hands it to pollFailure.
PollReturnsError(outcome) ==
    /\ pc' = "pollFailure"
    /\ lastOutcome' = outcome
    /\ previousResults' = ResultsAfterError(previousResults)

\* withRetries finds ctx.Err() set before an attempt: poll returns the error.
FetchCtxErr ==
    /\ pc = "fetch"
    /\ ctxDone
    /\ PollReturnsError("fetcherr")
    /\ attempt' = 0
    /\ UNCHANGED ret
    /\ FetchFrame

\* One attempt (fn) that succeeds: the document is fetched, valid JSON.
FetchAttemptOk ==
    /\ pc = "fetch"
    /\ ~ctxDone
    /\ \E doc \in cfg.device : ret' = doc
    /\ attempt' = 0
    /\ pc' = "process"
    /\ UNCHANGED <<lastOutcome, previousResults>>
    /\ FetchFrame

\* One attempt (fn) that fails: wait for the next one if one remains, else
\* poll returns the error.
FetchAttemptFail ==
    /\ pc = "fetch"
    /\ ~ctxDone
    /\ IF attempt + 1 < cfg.PollAttempts
       THEN /\ pc' = "retryWait"
            /\ attempt' = attempt + 1
            /\ UNCHANGED <<lastOutcome, previousResults>>
       ELSE /\ PollReturnsError("fetcherr")
            /\ attempt' = 0
    /\ UNCHANGED ret
    /\ FetchFrame

\* withRetries' wait between attempts: time.After(interval) fires.
RetryWaitElapsed ==
    /\ pc = "retryWait"
    /\ pc' = "fetch"
    /\ UNCHANGED <<ret, attempt, lastOutcome, previousResults>>
    /\ FetchFrame

\* withRetries' wait between attempts: ctx.Done() is taken.
RetryWaitCancelled ==
    /\ pc = "retryWait"
    /\ ctxDone
    /\ PollReturnsError("fetcherr")
    /\ attempt' = 0
    /\ UNCHANGED ret
    /\ FetchFrame

\* ------------------------------------------------------------------- poll
\* A plausible slip: no first-poll case, so the first results are diffed.
IsFirstPoll_Never(prev) == FALSE

\* poll's test d.state.previousResults == nil.
IsFirstPoll(prev) == IsNil(prev)

\* The map behind state.previousResults (a nil map reads as an empty one).
PrevMap(prev) == IF IsNil(prev) THEN EmptyMap ELSE Deref(prev)

\* The message poll builds from the changes.
AlertMessage(changes) == buildMessage(changesAsText(changes))

\* poll's parseSES(ret) for every document a poll can hold, evaluated once.
Parsed == [d \in AllDocs \cup {NoDoc} |-> parseSES(d)]

\* The result maps a monitor can hold.
PollMaps == { Parsed[d].m : d \in AllDocs \cup {NoDoc} }

\* poll's changes, msg and hash for every previous and current map,
\* evaluated once.
Diffed ==
    [prev \in PollMaps, curr \in PollMaps |->
        LET changes == rowsDiff(prev, curr)
            msg == AlertMessage(changes)
        IN  [changes |-> changes, msg |-> msg, hash |-> Sha256Hex(msg)]]

\* poll's test lastAlertHash != "" && lastAlertHash == hash.
AlertSuppressed(last, hash) == last # <<>> /\ last = hash

\* The text of the error pollFailure is given.
S_err == <<"err">>

\* The message pollFailure logs and notifies at the threshold.
BackoffMessage(f, c) ==
    <<"Error polling device [">> \o Itoa(f) \o <<"/">> \o Itoa(c.PollBackoffAfter)
    \o (IF c.PollBackoffStopMonitor
        THEN <<"] (stopping device monitor): ">>
        ELSE <<"] (entering ">> \o <<"PollBackoffTime">> \o <<" back-off): ">>)
    \o S_err

\* A notifier task as the monitor starts it:
\* go d.notifier.Notify(ctx, d.device, msg, extra).
NotifierTask(kind, msg, extra) == [kind |-> kind, msg |-> msg, extra |-> extra]

\* The monitor's task is back at the loop's select.
ToSelect == pc' = "select"

\* The notifier tasks after one more is started: go func() { ... Notify ... }().
TaskStarted(task) ==
    /\ tasks' = [tasks EXCEPT ![task.kind] = @ + 1]
    /\ lastTask' = ptr(task)
    /\ lastTaskRan' = FALSE
    /\ hashAtRun' = <<>>
    /\ taskOutcome' = ""
    /\ notifyArgs' = <<>>

\* What a successful poll does as it returns: the deferred store of
\* currentResults, and the poll counted as a success.
PollReturnsNil(curr) ==
    /\ previousResults' = ptr(curr)
    /\ ret' = NoDoc
    /\ succeeded' = TRUE
    /\ sinceReset' = 0
    /\ ToSelect

\* writeCurrentData: the two snapshot writes.
WriteCurrentData ==
    IF cfg.OutputDir /\ cfg.fsysWritable
    THEN currentFiles' = currentFiles \cup {"current.json", "current_parsed.json"}
    ELSE UNCHANGED currentFiles

\* What poll leaves alone.
PollFrame ==
    /\ UNCHANGED <<done, attempt, polls, doneCloses,
                   pollFailures, counted, plainLogs, backoffLogs, backoffWaits>>
    /\ UNCHANGED outerVars
    /\ UNCHANGED stopVars
    /\ UNCHANGED otherVars

\* poll from parseSES to its return, or to the start of handleAlert's writes.
PollProcess ==
    /\ pc = "process"
    /\ LET out == Parsed[ret] IN
       IF out.panic
       THEN \* the panic unwinds to Start's deferred calls
            /\ panicked' = TRUE
            /\ pc' = "deferStop"
            /\ ret' = NoDoc
            /\ lastOutcome' = "panic"
            /\ UNCHANGED <<succeeded, sinceReset>>
            /\ UNCHANGED alertVars
            /\ UNCHANGED taskVars
       ELSE IF out.err
       THEN /\ PollReturnsError("parseerr")
            /\ ret' = NoDoc
            /\ UNCHANGED <<panicked, succeeded, sinceReset>>
            /\ UNCHANGED <<lastAlertHash, changeReports, currentFiles>>
            /\ UNCHANGED taskVars
       ELSE /\ WriteCurrentData
            /\ UNCHANGED panicked
            /\ IF IsFirstPoll(previousResults)
               THEN /\ lastOutcome' = "first"
                    /\ PollReturnsNil(out.m)
                    /\ UNCHANGED <<lastAlertHash, changeReports>>
                    /\ UNCHANGED taskVars
               ELSE LET d == Diffed[PrevMap(previousResults), out.m]
                        changes == d.changes
                        msg == d.msg
                        hash == d.hash
                    IN  IF changes = {}
                        THEN /\ lastOutcome' = "nochange"
                             /\ PollReturnsNil(out.m)
                             /\ UNCHANGED <<lastAlertHash, changeReports>>
                             /\ UNCHANGED taskVars
                        ELSE IF AlertSuppressed(lastAlertHash, hash)
                        THEN /\ lastOutcome' = "suppressed"
                             /\ PollReturnsNil(out.m)
                             /\ UNCHANGED <<lastAlertHash, changeReports>>
                             /\ UNCHANGED taskVars
                        ELSE \* handleAlert: the log line and the notifier task
                             /\ IF cfg.notifier
                                THEN TaskStarted(NotifierTask("alert", msg, ptr(changes)))
                                ELSE UNCHANGED taskVars
                             /\ pc' = "handleAlert"
                             /\ UNCHANGED <<ret, lastOutcome, succeeded, sinceReset,
                                            lastAlertHash, previousResults, changeReports>>
    /\ PollFrame

\* A plausible slip: the hash is recorded only when a notifier was told.
AlertHashStored_NotifierOnly(c, old, hash) == IF c.notifier THEN hash ELSE old

\* A plausible slip: the hash is recorded only when the report was written.
AlertHashStored_OnlyIfWritten(c, old, hash) ==
    IF c.OutputDir /\ ~c.fsysWritable THEN old ELSE hash

\* A plausible slip: the hash is never recorded.
AlertHashStored_Never(c, old, hash) == old

\* handleAlert's d.state.lastAlertHash = hash.
AlertHashStored(c, old, hash) == hash

\* handleAlert after the notifier task is started: the change report is
\* written (unless the write fails), the hash stored; poll returns nil.
HandleAlertFinish ==
    /\ pc = "handleAlert"
    /\ LET curr == Parsed[ret].m
           hash == Diffed[PrevMap(previousResults), curr].hash
       IN  /\ IF cfg.OutputDir /\ cfg.fsysWritable
              THEN changeReports' = changeReports + 1
              ELSE UNCHANGED changeReports
           /\ lastAlertHash' = AlertHashStored(cfg, lastAlertHash, hash)
           /\ lastOutcome' = "alert"
           /\ PollReturnsNil(curr)
    /\ UNCHANGED <<panicked, currentFiles>>
    /\ UNCHANGED taskVars
    /\ PollFrame

\* ------------------------------------------------------------ pollFailure
\* What pollFailure leaves alone.
FailureFrame ==
    /\ UNCHANGED <<done, ret, attempt, polls, doneCloses, panicked, succeeded,
                   lastOutcome, lastAlertHash, previousResults, changeReports,
                   currentFiles>>
    /\ UNCHANGED outerVars
    /\ UNCHANGED otherVars

\* A plausible slip: the first select has no case for the stop signal.
FailureIgnored_CtxOnly(cancelled, stopped) == cancelled

\* pollFailure's first select has a ready case (ctx.Done() or state.stop)
\* and so does not take its default.
FailureIgnored(cancelled, stopped) == cancelled \/ stopped

\* pollFailure's first select: ctx is done or stop is closed, so it returns
\* at once.
PollFailureSkipped ==
    /\ pc = "pollFailure"
    /\ FailureIgnored(ctxDone, stop)
    /\ ToSelect
    /\ UNCHANGED taskVars
    /\ UNCHANGED stopVars
    /\ UNCHANGED failVars
    /\ FailureFrame

\* A plausible slip: the threshold is taken one failure late.
BackoffReached_Late(f, after) == f > after

\* pollFailure's threshold test (the else of pollFailures < PollBackoffAfter).
BackoffReached(f, after) == ~(f < after)

\* A plausible slip: the monitor waits although it is configured to stop.
BackoffStops_Never(c) == FALSE

\* pollFailure's test *d.cfg.PollBackoffStopMonitor.
BackoffStops(c) == c.PollBackoffStopMonitor

\* pollFailure's test d.notifier != nil && *d.cfg.PollBackoffNotify.
BackoffNotifies(c) == c.notifier /\ c.PollBackoffNotify

\* pollFailure past its first select: the failure is counted and logged; at
\* the threshold the back-off is logged and notified, and the monitor stops
\* itself or begins the back-off wait.
PollFailureCounted ==
    /\ pc = "pollFailure"
    /\ ~FailureIgnored(ctxDone, stop)
    /\ pollFailures' = pollFailures + 1
    /\ counted' = counted + 1
    /\ sinceReset' = sinceReset + 1
    /\ IF ~BackoffReached(pollFailures', cfg.PollBackoffAfter)
       THEN /\ plainLogs' = plainLogs + 1
            /\ ToSelect
            /\ UNCHANGED <<backoffLogs, backoffWaits>>
            /\ UNCHANGED taskVars
            /\ UNCHANGED stopVars
       ELSE /\ backoffLogs' = backoffLogs + 1
            /\ UNCHANGED plainLogs
            /\ IF BackoffNotifies(cfg)
               THEN TaskStarted(NotifierTask("backoff",
                                  BackoffMessage(pollFailures', cfg), NilPtr))
               ELSE UNCHANGED taskVars
            /\ IF BackoffStops(cfg)
               THEN /\ Stop
                    /\ ToSelect
                    /\ UNCHANGED backoffWaits
               ELSE /\ backoffWaits' = backoffWaits + 1
                    /\ pc' = "backoffWait"
                    /\ UNCHANGED stopVars
    /\ FailureFrame

\* A plausible slip: the counter is left as it is after the back-off.
FailuresAfterBackoff_Kept(f) == f

\* pollFailure's d.state.pollFailures = 0 after the wait.
FailuresAfterBackoff(f) == 0

\* The back-off wait ends by time.After(PollBackoffTime): the counter is reset.
BackoffElapsed ==
    /\ pc = "backoffWait"
    /\ pollFailures' = FailuresAfterBackoff(pollFailures)
    /\ sinceReset' = 0
    /\ ToSelect
    /\ UNCHANGED <<counted, plainLogs, backoffLogs, backoffWaits>>
    /\ UNCHANGED taskVars
    /\ UNCHANGED stopVars
    /\ FailureFrame

\* A plausible slip: the counter is reset however the wait ends.
FailuresAfterInterrupt_Reset(f) == 0

\* pollFailure's return out of the wait's ctx.Done() and stop cases: the
\* counter is as it was.
FailuresAfterInterrupt(f) == f

\* The back-off wait ends by ctx.Done() or the stop signal: pollFailure
\* returns without the reset.
BackoffInterrupted ==
    /\ pc = "backoffWait"
    /\ ctxDone \/ stop
    /\ ToSelect
    /\ pollFailures' = FailuresAfterInterrupt(pollFailures)
    /\ UNCHANGED <<counted, sinceReset, plainLogs, backoffLogs, backoffWaits>>
    /\ UNCHANGED taskVars
    /\ UNCHANGED stopVars
    /\ FailureFrame

\* --------------------------------------------------- the loop of Start
\* A plausible slip: the loop's select has no case for the stop signal.
ExitRequested_CtxOnly == ctxDone

\* The loop's select can take a case that returns: ctx.Done() or state.stop.
ExitRequested == ctxDone \/ stop

\* What the loop and the deferred calls leave alone.
LoopFrame ==
    /\ UNCHANGED <<ret, attempt, panicked, succeeded, lastOutcome>>
    /\ UNCHANGED outerVars
    /\ UNCHANGED otherVars
    /\ UNCHANGED failVars
    /\ UNCHANGED alertVars
    /\ UNCHANGED taskVars

\* The select takes ticker.C: a tick is there (it came during the last poll
\* or comes now), and the next poll begins. Go picks among the ready cases
\* of a select at random, so the tick can be taken with stop closed or ctx
\* done as well.
LoopTick ==
    /\ pc = "select"
    /\ polls < MaxPolls
    /\ polls' = polls + 1
    /\ pc' = "fetch"
    /\ UNCHANGED <<done, doneCloses>>
    /\ UNCHANGED stopVars
    /\ LoopFrame

\* The select takes ctx.Done() or state.stop: the task returns, and the
\* deferred ticker.Stop() runs.
LoopExit ==
    /\ pc = "select"
    /\ ExitRequested
    /\ pc' = "deferStop"
    /\ UNCHANGED <<done, polls, doneCloses>>
    /\ UNCHANGED stopVars
    /\ LoopFrame

\* A plausible slip: Start's task does not defer d.Stop().
DeferredStop_Missing == UNCHANGED stopVars

\* The d.Stop() that Start's task defers.
DeferredStop == Stop

\* Start's deferred d.Stop().
DeferStop ==
    /\ pc = "deferStop"
    /\ DeferredStop
    /\ pc' = "deferClose"
    /\ UNCHANGED <<done, polls, doneCloses>>
    /\ LoopFrame

\* A plausible slip: Start's task joins its notifier goroutines (a
\* sync.WaitGroup around them) before it closes Done.
NotifiersAwaited_Joined(task, outcome) ==
    ~IsNil(task) /\ outcome \in {"", "running"}

\* The deferred close(d.state.done) has to wait for the notifier task
\* started last: never, the goroutines of handleAlert and pollFailure are
\* started with a bare go statement and joined nowhere.
NotifiersAwaited(task, outcome) == FALSE

\* Start's deferred close(d.state.done); recoverGoPanic then ends the task.
DeferCloseDone ==
    /\ pc = "deferClose"
    /\ ~NotifiersAwaited(lastTask, taskOutcome)
    /\ done' = TRUE
    /\ doneCloses' = doneCloses + 1
    /\ pc' = "done"
    /\ UNCHANGED polls
    /\ UNCHANGED stopVars
    /\ LoopFrame

\* ------------------------------------------------------ the specification
\* The steps of the monitor's own task.
MonitorTask ==
    \/ FetchCtxErr
    \/ FetchAttemptOk
    \/ FetchAttemptFail
    \/ RetryWaitElapsed
    \/ RetryWaitCancelled
    \/ PollProcess
    \/ HandleAlertFinish
    \/ PollFailureSkipped
    \/ PollFailureCounted
    \/ BackoffElapsed
    \/ BackoffInterrupted
    \/ LoopTick
    \/ LoopExit
    \/ DeferStop
    \/ DeferCloseDone

Next ==
    \/ Start
    \/ StopCall
    \/ Cancel
    \/ MonitorTask

Spec == Init /\ [][Next]_vars

\* The monitor's task is scheduled and its timers fire (weak fairness of its
\* steps); Go's select picks uniformly at random among its ready cases, so a
\* returning case that is ready again and again is taken at last (strong
\* fairness of the exit). Stop and cancellation are not required to happen.
LiveSpec == Spec /\ WF_vars(MonitorTask) /\ SF_vars(LoopExit)

\* =========================================================== the Program
\* ------------------------------------------------------------ filepath.Clean
\* The components of a path: the pieces between its slashes.
RECURSIVE SplitPath(_, _, _)
SplitPath(path, cur, acc) ==
    IF path = <<>> THEN Append(acc, cur)
    ELSE IF Head(path) = "/" THEN SplitPath(Tail(path), <<>>, Append(acc, cur))
    ELSE SplitPath(Tail(path), Append(cur, Head(path)), acc)

\* Clean's pass over the components: empty ones and "." go, ".." takes the
\* component before it away (at the root it goes itself).
RECURSIVE CleanComponents(_, _, _)
CleanComponents(comps, out, rooted) ==
    IF comps = <<>> THEN out
    ELSE LET c == Head(comps)
             rest == Tail(comps)
         IN  IF c = <<>> \/ c = <<".">> THEN CleanComponents(rest, out, rooted)
             ELSE IF c = <<".", ".">>
             THEN IF out # <<>> /\ out[Len(out)] # <<".", ".">>
                  THEN CleanComponents(rest, SubSeq(out, 1, Len(out) - 1), rooted)
                  ELSE IF rooted THEN CleanComponents(rest, out, rooted)
                  ELSE CleanComponents(rest, Append(out, c), rooted)
             ELSE CleanComponents(rest, Append(out, c), rooted)

\* filepath.Clean: the shortest path naming the same file.
Clean(path) ==
    IF path = <<>> THEN <<".">>
    ELSE LET rooted == Head(path) = "/"
             body == Join(CleanComponents(SplitPath(path, <<>>, <<>>), <<>>, rooted),
                          <<"/">>)
         IN  IF rooted THEN <<"/">> \o body
             ELSE IF body = <<>> THEN <<".">>
             ELSE body

\* mergeDeviceMonitorConfig's OutputDir: the cleaned directory, or the
\* default (none) if none or an empty one is configured.
MergedOutputDir(o) ==
    IF ~IsNil(o) /\ Deref(o) # <<>> THEN ptr(Clean(Deref(o))) ELSE NilPtr

\* ------------------------------------------------------------- the inputs
\* Largest number of entries in config.Devices.
MaxDevices == 2

P_sg0 == <<"/dev/", "s", "g", "0">>
P_sg1 == <<"/dev/", "s", "g", "1">>
\* A device path no file exists at.
P_gone == <<"/dev/", "s", "g", "9">>
A_a0 == <<"5", "0", "0", "a">>
\* An address no device has.
A_a1 == <<"5", "0", "0", "b">>
D_out == <<"/", "o">>
D_outSlash == <<"/", "o", "/">>

\* The device files fsys.Stat finds.
ExistingDevices == {P_sg0, P_sg1}

\* The resolver's index NewProgram is given: a0 is the address of sg0.
FinderIndex == [a \in {A_a0} |-> P_sg0]

\* finder: none (no lookup table), or the index.
Finders == {NilPtr, ptr(FinderIndex)}

\* The entries of config.Devices: the enabled ones, and two disabled ones of
\* which one has neither device nor address.
DeviceEntries ==
    [Enabled : {TRUE},
     Device : {<<>>, P_sg0, P_sg1, P_gone},
     Address : {<<>>, A_a0, A_a1},
     OutputDir : {NilPtr, ptr(D_out), ptr(D_outSlash)}]
    \cup
    [Enabled : {FALSE},
     Device : {<<>>, P_sg0},
     Address : {<<>>},
     OutputDir : {NilPtr}]

\* config.Devices as decoded from the YAML.
RECURSIVE DeviceLists(_)
DeviceLists(n) ==
    IF n = 0 THEN {<<>>}
    ELSE LET shorter == DeviceLists(n - 1)
         IN  shorter \cup { Append(l, e) : l \in { x \in shorter : Len(x) = n - 1 },
                                          e \in DeviceEntries }

\* ------------------------------------------------------------ lookupDevice
\* DeviceFinder.FindDevice on an index.
FindDevice(index, address) ==
    IF address \in DOMAIN index
    THEN [dev |-> index[address], ok |-> TRUE]
    ELSE [dev |-> <<>>, ok |-> FALSE]

\* DeviceFinder.FindAddress on an index.
FindAddress(index, path) ==
    IF \E a \in DOMAIN index : index[a] = path
    THEN [addr |-> CHOOSE a \in DOMAIN index : index[a] = path, ok |-> TRUE]
    ELSE [addr |-> <<>>, ok |-> FALSE]

\* A plausible slip: the unresolved address is kept when the path is used.
lookupDevice_KeepAddress(deviceCfg, fnd) ==
    IF deviceCfg.Address # <<>>
    THEN IF ~IsNil(fnd)
         THEN LET r == FindDevice(Deref(fnd), deviceCfg.Address) IN
              IF r.ok THEN [err |-> "", cfg |-> [deviceCfg EXCEPT !.Device = r.dev]]
              ELSE IF deviceCfg.Device = <<>>
              THEN [err |-> "errDeviceLookupFailed", cfg |-> deviceCfg]
              ELSE [err |-> "", cfg |-> deviceCfg]
         ELSE IF deviceCfg.Device = <<>>
              THEN [err |-> "errDeviceLookupFailed", cfg |-> deviceCfg]
              ELSE [err |-> "", cfg |-> deviceCfg]
    ELSE IF deviceCfg.Device # <<>> /\ ~IsNil(fnd)
    THEN LET r == FindAddress(Deref(fnd), deviceCfg.Device) IN
         IF r.ok THEN [err |-> "", cfg |-> [deviceCfg EXCEPT !.Address = r.addr]]
         ELSE [err |-> "", cfg |-> deviceCfg]
    ELSE [err |-> "", cfg |-> deviceCfg]

\* lookupDevice: the entry completed in place, or the error.
lookupDevice(deviceCfg, fnd) ==
    IF deviceCfg.Address # <<>>
    THEN IF ~IsNil(fnd)
         THEN LET r == FindDevice(Deref(fnd), deviceCfg.Address) IN
              IF r.ok THEN [err |-> "", cfg |-> [deviceCfg EXCEPT !.Device = r.dev]]
              ELSE IF deviceCfg.Device = <<>>
              THEN [err |-> "errDeviceLookupFailed", cfg |-> deviceCfg]
              ELSE [err |-> "", cfg |-> [deviceCfg EXCEPT !.Address = <<>>]]
         ELSE IF deviceCfg.Device = <<>>
              THEN [err |-> "errDeviceLookupFailed", cfg |-> deviceCfg]
              ELSE [err |-> "", cfg |-> [deviceCfg EXCEPT !.Address = <<>>]]
    ELSE IF deviceCfg.Device # <<>> /\ ~IsNil(fnd)
    THEN LET r == FindAddress(Deref(fnd), deviceCfg.Device) IN
         IF r.ok THEN [err |-> "", cfg |-> [deviceCfg EXCEPT !.Address = r.addr]]
         ELSE [err |-> "", cfg |-> deviceCfg]
    ELSE [err |-> "", cfg |-> deviceCfg]

\* -------------------------------------------------------------- NewProgram
\* A configuration with every feature on, for the runs in which the single
\* device monitor is not the subject.
FullConfigs ==
    { c \in Configs : /\ c.notifier
                      /\ c.OutputDir
                      /\ c.fsysWritable
                      /\ c.PollBackoffNotify
                      /\ ~c.PollBackoffStopMonitor
                      /\ c.PollBackoffAfter = 1 }

\* A function with one more key.
MapPut(f, k, v) == [x \in (DOMAIN f) \cup {k} |-> IF x = k THEN v ELSE f[x]]

\* A plausible slip: one deviceMonitorState is handed to every monitor.
StateOf_Shared(path) == P_sg0

\* The deviceMonitorState of the monitor of a device: NewDeviceMonitor makes
\* a new one for each monitor.
StateOf(path) == path

\* newDeviceMonitorState: the zero values (the channels are mstop and
\* mdoneCloses).
NewMonitorState ==
    [pollFailures |-> 0, lastAlertHash |-> <<>>, previousResults |-> NilPtr]

\* DefaultDeviceMonitorConfig's back-off settings.
DefaultBackoff == [PollBackoffAfter |-> 3, PollBackoffStopMonitor |-> FALSE]

\* The DeviceMonitor that setupDeviceMonitor and NewDeviceMonitor build for a
\* resolved entry: what the supervisor's rules look at.
MonitorBuilt(deviceCfg) ==
    [Address |-> deviceCfg.Address, OutputDir |-> MergedOutputDir(deviceCfg.OutputDir)]

\* NewProgram's locals are gone when it returns.
LocalsGone ==
    /\ config' = <<>>
    /\ finder' = NilPtr
    /\ di' = 0
    /\ seenOutputDirs' = {}

\* NewProgram returns nil and the error.
ReturnError(e) ==
    /\ built' = e
    /\ LocalsGone
    /\ UNCHANGED <<monitors, progVars>>

\* What NewProgram and the Program leave alone.
ProgramFrame ==
    /\ UNCHANGED monitorVars
    /\ UNCHANGED writeVars
    /\ UNCHANGED finderVars
    /\ UNCHANGED pureVars

\* A plausible slip: a list without an enabled entry counts as no devices.
NoDevices_NoneEnabled(devs) == \A i \in 1..Len(devs) : ~devs[i].Enabled

\* len(config.Devices) == 0
NoDevices(devs) == Len(devs) = 0

\* NewProgram up to its loop: the YAML is decoded, the list must not be empty.
NewProgramBegin ==
    /\ built = "new"
    /\ IF NoDevices(config)
       THEN ReturnError("errNoDevices")
       ELSE /\ built' = "running"
            /\ UNCHANGED <<config, finder, di, seenOutputDirs, monitors, progVars>>
    /\ ProgramFrame

\* One pass of NewProgram's loop over config.Devices.
NewProgramEntry ==
    /\ built = "running"
    /\ di < Len(config)
    /\ LET deviceCfg == config[di + 1]
           dir == deviceCfg.OutputDir
           looked == lookupDevice(deviceCfg, finder)
           path == looked.cfg.Device
       IN  IF ~deviceCfg.Enabled
           THEN /\ di' = di + 1
                /\ UNCHANGED <<config, finder, seenOutputDirs, monitors, built, progVars>>
           ELSE IF deviceCfg.Device = <<>> /\ deviceCfg.Address = <<>>
           THEN ReturnError("errInvalidArgument")
           ELSE IF ~IsNil(dir) /\ Deref(dir) \in seenOutputDirs
           THEN ReturnError("errInvalidArgument")
           ELSE IF looked.err # ""
           THEN ReturnError(looked.err)
           ELSE IF path \in DOMAIN monitors
           THEN ReturnError("errInvalidArgument")
           ELSE IF path \notin ExistingDevices
           THEN \* NewDeviceMonitor: stat device failure
                ReturnError("errInvalidArgument")
           ELSE /\ seenOutputDirs' = (IF IsNil(dir) THEN seenOutputDirs
                                      ELSE seenOutputDirs \cup {Deref(dir)})
                /\ monitors' = MapPut(monitors, path, MonitorBuilt(looked.cfg))
                /\ mpc' = MapPut(mpc, path, "idle")
                /\ mstop' = MapPut(mstop, path, FALSE)
                /\ mdoneCloses' = MapPut(mdoneCloses, path, 0)
                /\ mpanicked' = MapPut(mpanicked, path, FALSE)
                /\ wgDone' = MapPut(wgDone, path, FALSE)
                /\ mstate' = MapPut(mstate, StateOf(path), NewMonitorState)
                /\ mcfg' = MapPut(mcfg, path, DefaultBackoff)
                /\ mpolls' = MapPut(mpolls, path, 0)
                /\ di' = di + 1
                /\ UNCHANGED <<config, finder, built, progPc, pdone>>
    /\ ProgramFrame

\* NewProgram after its loop: return p, nil.
NewProgramReturn ==
    /\ built = "running"
    /\ di = Len(config)
    /\ built' = "ok"
    /\ LocalsGone
    /\ UNCHANGED <<monitors, progVars>>
    /\ ProgramFrame

\* ----------------------------------------------- Program.Start, Stop, Done
\* The errors NewProgram returns.
NewProgramErrors == {"errNoDevices", "errInvalidArgument", "errDeviceLookupFailed"}

\* A plausible slip: the half-built Program is returned with the error.
HasProgram_Partial(b) == b = "ok" \/ b \in NewProgramErrors

\* NewProgram returned a Program (and a nil error).
HasProgram(b) == b = "ok"

\* Where a panic in the polling loop of DeviceMonitor.Start's goroutine
\* continues: at the deferred d.Stop(), then the deferred close(d.state.done),
\* then recoverGoPanic.
\* A plausible slip: no deferred calls, the panic ends the goroutine at once.
PanicUnwindsTo_Crash == "crashed"

PanicUnwindsTo == "deferStop"

\* A plausible slip: the waiter goes on after the first monitor.
WaitReturns_Any == \E k \in DOMAIN monitors : wgDone[k]

\* wg.Wait() returns: every function handed to wg.Go has returned.
WaitReturns == \A k \in DOMAIN monitors : wgDone[k]

\* What the run of a Program leaves alone.
RunFrame ==
    /\ UNCHANGED <<mstate, mcfg, mpolls>>
    /\ UNCHANGED monitorVars
    /\ UNCHANGED writeVars
    /\ UNCHANGED finderVars
    /\ UNCHANGED buildVars
    /\ UNCHANGED pureVars

\* Program.Start: one wg.Go per monitor and the waiter goroutine.
ProgramStart ==
    /\ HasProgram(built)
    /\ progPc = "idle"
    /\ progPc' = "started"
    /\ UNCHANGED <<mpc, mstop, mdoneCloses, mpanicked, wgDone, pdone>>
    /\ RunFrame

\* The function handed to wg.Go calls monitor.Start(ctx), which starts the
\* monitor's goroutine: first poll, then the select loop.
WgMonitorStart(k) ==
    /\ progPc # "idle"
    /\ k \in DOMAIN monitors
    /\ mpc[k] = "idle"
    /\ mpc' = [mpc EXCEPT ![k] = "loop"]
    /\ UNCHANGED <<progPc, mstop, mdoneCloses, mpanicked, wgDone, pdone>>
    /\ RunFrame

\* A panic inside poll or pollFailure of monitor k.
MonPanic(k) ==
    /\ k \in DOMAIN monitors
    /\ mpc[k] = "loop"
    /\ mpanicked' = [mpanicked EXCEPT ![k] = TRUE]
    /\ mpc' = [mpc EXCEPT ![k] = PanicUnwindsTo]
    /\ UNCHANGED <<progPc, mstop, mdoneCloses, wgDone, pdone>>
    /\ RunFrame

\* pollFailure of monitor k stops the monitor (stop on back-off).
MonSelfStop(k) ==
    /\ k \in DOMAIN monitors
    /\ mpc[k] = "loop"
    /\ ~mstop[k]
    /\ mstop' = [mstop EXCEPT ![k] = TRUE]
    /\ UNCHANGED <<progPc, mpc, mdoneCloses, mpanicked, wgDone, pdone>>
    /\ RunFrame

\* The select of monitor k takes <-ctx.Done() or <-d.state.stop.
MonExit(k) ==
    /\ k \in DOMAIN monitors
    /\ mpc[k] = "loop"
    /\ ctxDone \/ mstop[k]
    /\ mpc' = [mpc EXCEPT ![k] = "deferStop"]
    /\ UNCHANGED <<progPc, mstop, mdoneCloses, mpanicked, wgDone, pdone>>
    /\ RunFrame

\* defer d.Stop() of monitor k.
MonDeferStop(k) ==
    /\ k \in DOMAIN monitors
    /\ mpc[k] = "deferStop"
    /\ mstop' = [mstop EXCEPT ![k] = TRUE]
    /\ mpc' = [mpc EXCEPT ![k] = "deferClose"]
    /\ UNCHANGED <<progPc, mdoneCloses, mpanicked, wgDone, pdone>>
    /\ RunFrame

\* defer close(d.state.done) of monitor k, then recoverGoPanic.
MonDeferClose(k) ==
    /\ k \in DOMAIN monitors
    /\ mpc[k] = "deferClose"
    /\ mdoneCloses' = [mdoneCloses EXCEPT ![k] = @ + 1]
    /\ mpc' = [mpc EXCEPT ![k] = "done"]
    /\ UNCHANGED <<progPc, mstop, mpanicked, wgDone, pdone>>
    /\ RunFrame

\* <-monitor.Done() in the function handed to wg.Go, which then returns.
WgReturn(k) ==
    /\ progPc # "idle"
    /\ k \in DOMAIN monitors
    /\ mpc[k] # "idle"
    /\ mdoneCloses[k] > 0
    /\ ~wgDone[k]
    /\ wgDone' = [wgDone EXCEPT ![k] = TRUE]
    /\ UNCHANGED <<progPc, mpc, mstop, mdoneCloses, mpanicked, pdone>>
    /\ RunFrame

\* The waiter goroutine: wg.Wait(); close(p.done).
WaiterClose ==
    /\ progPc = "started"
    /\ WaitReturns
    /\ pdone' = pdone + 1
    /\ progPc' = "waited"
    /\ UNCHANGED <<mpc, mstop, mdoneCloses, mpanicked, wgDone>>
    /\ RunFrame

\* Program.Stop: monitor.Stop() for every monitor.
ProgramStop ==
    /\ HasProgram(built)
    /\ \E k \in DOMAIN monitors : ~mstop[k]
    /\ mstop' = [k \in DOMAIN monitors |-> TRUE]
    /\ UNCHANGED <<progPc, mpc, mdoneCloses, mpanicked, wgDone, pdone>>
    /\ RunFrame

\* The caller cancels the context handed to Program.Start.
ProgramCancel ==
    /\ ~ctxDone
    /\ ctxDone' = TRUE
    /\ UNCHANGED <<cfg, pc, stop, once, done, pollFailures, lastAlertHash,
                   previousResults, ret, attempt, tasks, lastTask,
                   changeReports, currentFiles, polls, stopCalls, stopCloses,
                   doneCloses, panicked, closePanic, counted, sinceReset,
                   succeeded, plainLogs, backoffLogs, backoffWaits,
                   lastOutcome, lastTaskRan, hashAtRun, taskOutcome, notifyArgs>>
    /\ UNCHANGED otherVars

\* The goroutines of the running Program.
ProgramTask ==
    \/ \E k \in ExistingDevices : WgMonitorStart(k)
    \/ \E k \in ExistingDevices : MonExit(k)
    \/ \E k \in ExistingDevices : MonDeferStop(k)
    \/ \E k \in ExistingDevices : MonDeferClose(k)
    \/ \E k \in ExistingDevices : WgReturn(k)
    \/ WaiterClose

\* Inputs of NewProgram: a decoded devices list and a lookup table or none.
ProgInit ==
    /\ MonitorInit(FullConfigs)
    /\ WriteInit
    /\ PureIdle
    /\ FinderIdle
    /\ config \in DeviceLists(MaxDevices)
    /\ finder \in Finders
    /\ di = 0
    /\ seenOutputDirs = {}
    /\ monitors = <<>>
    /\ built = "new"
    /\ progPc = "idle"
    /\ mpc = <<>>
    /\ mstop = <<>>
    /\ mdoneCloses = <<>>
    /\ mpanicked = <<>>
    /\ wgDone = <<>>
    /\ pdone = 0
    /\ mstate = <<>>
    /\ mcfg = <<>>
    /\ mpolls = <<>>

ProgNext ==
    \/ NewProgramBegin
    \/ NewProgramEntry
    \/ NewProgramReturn
    \/ ProgramStart
    \/ ProgramStop
    \/ ProgramCancel
    \/ \E k \in ExistingDevices : MonPanic(k)
    \/ \E k \in ExistingDevices : MonSelfStop(k)
    \/ ProgramTask

ProgSpec == ProgInit /\ [][ProgNext]_vars

\* The Go scheduler runs every goroutine that can take a step.
ProgLiveSpec ==
    /\ ProgSpec
    /\ \A k \in ExistingDevices :
          /\ WF_vars(WgMonitorStart(k))
          /\ WF_vars(MonExit(k))
          /\ WF_vars(MonDeferStop(k))
          /\ WF_vars(MonDeferClose(k))
          /\ WF_vars(WgReturn(k))
    /\ WF_vars(WaiterClose)

\* ------------------------------------------- the monitors side by side
\* Largest number of polls of one monitor.
MaxSiblingPolls == 2

\* The documents the devices answer with.
SiblingDocs == {DocOK, DocCritical}

\* The back-off settings of the monitors.
SiblingConfigs == [PollBackoffAfter : {1, 2}, PollBackoffStopMonitor : BOOLEAN]

\* What a step of monitor k leaves alone besides the other monitors.
SiblingFrame ==
    /\ UNCHANGED <<progPc, mdoneCloses, mpanicked, wgDone, pdone, mcfg>>
    /\ UNCHANGED monitorVars
    /\ UNCHANGED writeVars
    /\ UNCHANGED finderVars
    /\ UNCHANGED buildVars
    /\ UNCHANGED pureVars

\* A plausible slip: the results of a poll that raised an alert are not
\* kept.
ResultsAfterPoll_KeptOnAlert(prev, curr, alerted) ==
    IF alerted THEN prev ELSE ptr(curr)

\* poll's deferred d.state.previousResults = currentResults.
ResultsAfterPoll(prev, curr, alerted) == ptr(curr)

\* A poll of monitor k, one of at most max, succeeds with document d: a
\* change against the previous results is alerted (unless it is the alert
\* before it again) and its hash kept, and the results replace the previous
\* ones.
PollSucceeds(k, d, max) ==
    /\ k \in DOMAIN monitors
    /\ mpc[k] = "loop"
    /\ mpolls[k] < max
    /\ ~ctxDone
    /\ LET st == mstate[StateOf(k)]
           curr == Parsed[d].m
           dd == Diffed[PrevMap(st.previousResults), curr]
           alerts == /\ ~IsFirstPoll(st.previousResults)
                     /\ dd.changes # {}
                     /\ ~AlertSuppressed(st.lastAlertHash, dd.hash)
       IN  mstate' = [mstate EXCEPT ![StateOf(k)] =
                         [st EXCEPT !.previousResults =
                                        ResultsAfterPoll(@, curr, alerts),
                                    !.lastAlertHash =
                                        IF alerts THEN dd.hash ELSE @]]
    /\ mpolls' = [mpolls EXCEPT ![k] = @ + 1]
    /\ UNCHANGED <<mpc, mstop>>
    /\ SiblingFrame

MonPollOk(k, d) == PollSucceeds(k, d, MaxSiblingPolls)

\* A poll of monitor k, one of at most max, fails and pollFailure is called: nothing happens
\* with the stop signal closed or the context cancelled; otherwise the
\* failure is counted, and at the threshold the monitor stops itself or
\* begins the back-off wait.
PollFails(k, max) ==
    /\ k \in DOMAIN monitors
    /\ mpc[k] = "loop"
    /\ mpolls[k] < max
    /\ mpolls' = [mpolls EXCEPT ![k] = @ + 1]
    /\ IF ctxDone \/ mstop[k]
       THEN UNCHANGED <<mstate, mpc, mstop>>
       ELSE LET st == mstate[StateOf(k)]
                f == st.pollFailures + 1
            IN  /\ mstate' = [mstate EXCEPT ![StateOf(k)] =
                                 [st EXCEPT !.pollFailures = f]]
                /\ IF ~BackoffReached(f, mcfg[k].PollBackoffAfter)
                   THEN UNCHANGED <<mpc, mstop>>
                   ELSE IF BackoffStops(mcfg[k])
                   THEN /\ mstop' = [mstop EXCEPT ![k] = TRUE]
                        /\ UNCHANGED mpc
                   ELSE /\ mpc' = [mpc EXCEPT ![k] = "backoff"]
                        /\ UNCHANGED mstop
    /\ SiblingFrame

MonPollFail(k) == PollFails(k, MaxSiblingPolls)

\* The back-off wait of monitor k ends by its timer: the counter is reset.
MonBackoffElapsed(k) ==
    /\ k \in DOMAIN monitors
    /\ mpc[k] = "backoff"
    /\ mpc' = [mpc EXCEPT ![k] = "loop"]
    /\ mstate' = [mstate EXCEPT ![StateOf(k)].pollFailures =
                     FailuresAfterBackoff(@)]
    /\ UNCHANGED <<mstop, mpolls>>
    /\ SiblingFrame

\* The back-off wait of monitor k ends by ctx.Done() or its stop signal.
MonBackoffInterrupted(k) ==
    /\ k \in DOMAIN monitors
    /\ mpc[k] = "backoff"
    /\ ctxDone \/ mstop[k]
    /\ mpc' = [mpc EXCEPT ![k] = "loop"]
    /\ mstate' = [mstate EXCEPT ![StateOf(k)].pollFailures =
                     FailuresAfterInterrupt(@)]
    /\ UNCHANGED <<mstop, mpolls>>
    /\ SiblingFrame

\* The polls and back-off waits of monitor k.
MonPolls(k) ==
    \/ \E d \in SiblingDocs : MonPollOk(k, d)
    \/ MonPollFail(k)
    \/ MonBackoffElapsed(k)
    \/ MonBackoffInterrupted(k)

\* NewProgram has returned a Program with a monitor for each device.
SiblingInit ==
    /\ MonitorInit(FullConfigs)
    /\ WriteInit
    /\ PureIdle
    /\ FinderIdle
    /\ config = <<>>
    /\ finder = NilPtr
    /\ di = 0
    /\ seenOutputDirs = {}
    /\ monitors = [k \in ExistingDevices |->
                      MonitorBuilt([Address |-> <<>>, OutputDir |-> NilPtr])]
    /\ built = "ok"
    /\ progPc = "idle"
    /\ mpc = [k \in ExistingDevices |-> "idle"]
    /\ mstop = [k \in ExistingDevices |-> FALSE]
    /\ mdoneCloses = [k \in ExistingDevices |-> 0]
    /\ mpanicked = [k \in ExistingDevices |-> FALSE]
    /\ wgDone = [k \in ExistingDevices |-> FALSE]
    /\ pdone = 0
    /\ mstate = [s \in {StateOf(k) : k \in ExistingDevices} |-> NewMonitorState]
    /\ mcfg \in [ExistingDevices -> SiblingConfigs]
    /\ mpolls = [k \in ExistingDevices |-> 0]

SiblingNext ==
    \/ ProgramStart
    \/ ProgramStop
    \/ ProgramCancel
    \/ \E k \in ExistingDevices : MonPanic(k)
    \/ \E k \in ExistingDevices : MonPolls(k)
    \/ ProgramTask

SiblingSpec == SiblingInit /\ [][SiblingNext]_vars

\* ------------------------------------------------ one monitor, many polls
\* Largest number of polls of the monitor.
MaxDedupPolls == 6

\* The documents the device answers with: the status comes and goes, and so
\* do the texts and metrics that are not compared.
DedupDocs == {DocOK, DocOkWarm, DocCritical, DocEmpty, DocOkMetrics, DocOkBare}

\* NewProgram has returned a Program with one monitor, which was started.
DedupInit ==
    /\ MonitorInit(FullConfigs)
    /\ WriteInit
    /\ PureIdle
    /\ FinderIdle
    /\ config = <<>>
    /\ finder = NilPtr
    /\ di = 0
    /\ seenOutputDirs = {}
    /\ monitors = [k \in {P_sg0} |->
                      MonitorBuilt([Address |-> <<>>, OutputDir |-> NilPtr])]
    /\ built = "ok"
    /\ progPc = "started"
    /\ mpc = [k \in {P_sg0} |-> "loop"]
    /\ mstop = [k \in {P_sg0} |-> FALSE]
    /\ mdoneCloses = [k \in {P_sg0} |-> 0]
    /\ mpanicked = [k \in {P_sg0} |-> FALSE]
    /\ wgDone = [k \in {P_sg0} |-> FALSE]
    /\ pdone = 0
    /\ mstate = [s \in {StateOf(P_sg0)} |-> NewMonitorState]
    /\ mcfg \in [{P_sg0} -> { c \in SiblingConfigs : ~c.PollBackoffStopMonitor }]
    /\ mpolls = [k \in {P_sg0} |-> 0]

DedupNext ==
    \/ \E d \in DedupDocs : PollSucceeds(P_sg0, d, MaxDedupPolls)
    \/ PollFails(P_sg0, MaxDedupPolls)
    \/ MonBackoffElapsed(P_sg0)

DedupSpec == DedupInit /\ [][DedupNext]_vars

\* -------------------------------------------------------- NewDeviceFinder
MaxNodes == 3

\* strings.ToLower
ToLower(s) == [i \in 1..Len(s) |-> FoldChar(s[i])]

\* The n-th node the glob /sys/class/scsi_generic/sg*/device matches.
NodePath(n) == <<"/sys/class/scsi_generic/">> \o <<"s", "g">> \o Itoa(n) \o <<"/device">>

\* "/dev/" + filepath.Base(filepath.Dir(d)) for a matched node d.
SgOf(d) == <<"/dev/">> \o SubSeq(d, 2, Len(d) - 1)

\* What afero.ReadFile finds in a node's sas_address: nothing readable, or
\* the file's content.
SasFiles ==
    {NilPtr,
     ptr(<<"5", "0", "0", "A", "\n">>),
     ptr(<<"5", "0", "0", "a">>),
     ptr(<<" ", "\n">>),
     ptr(<<"5", "0", "0", "b", "\n">>)}

\* The matched nodes in the order of the enumeration, each with its
\* sas_address file: every order of every choice of up to MaxNodes nodes.
MatchLists ==
    { m \in UNION { [1..n -> [d : {NodePath(i) : i \in 0..(MaxNodes - 1)}, sas : SasFiles]]
                    : n \in 0..MaxNodes } :
        \A i, j \in 1..Len(m) : i # j => m[i].d # m[j].d }

\* strings.ToLower(strings.TrimSpace(string(sasb)))
SasOf(sasb) == ToLower(TrimSpace(sasb))

\* A plausible slip: the ignored addresses stay in the index.
Deduplicated_Keep(devs, ign) == devs

\* The second loop of NewDeviceFinder: delete(devices, k) for every ignored k.
Deduplicated(devs, ign) == [a \in (DOMAIN devs) \ ign |-> devs[a]]

\* What NewDeviceFinder leaves alone.
FinderFrame ==
    /\ UNCHANGED monitorVars
    /\ UNCHANGED writeVars
    /\ UNCHANGED buildVars
    /\ UNCHANGED progVars
    /\ UNCHANGED pureVars

\* One pass of the first loop of NewDeviceFinder.
FinderNode ==
    /\ finderPc = "loop"
    /\ mi < Len(matches)
    /\ LET node == matches[mi + 1]
           sas == SasOf(Deref(node.sas))
           sg == SgOf(node.d)
       IN  IF IsNil(node.sas) \/ sas = <<>>
           THEN UNCHANGED <<devices, ignored>>
           ELSE /\ ignored' = (IF sas \in DOMAIN devices THEN ignored \cup {sas}
                               ELSE ignored)
                /\ devices' = MapPut(devices, sas, sg)
    /\ mi' = mi + 1
    /\ UNCHANGED <<matches, finderPc>>
    /\ FinderFrame

\* The second loop of NewDeviceFinder and its return.
FinderReturn ==
    /\ finderPc = "loop"
    /\ mi = Len(matches)
    /\ devices' = Deduplicated(devices, ignored)
    /\ finderPc' = "done"
    /\ UNCHANGED <<matches, mi, ignored>>
    /\ FinderFrame

\* NewDeviceFinder after the glob.
FinderInit ==
    /\ MonitorInit(FullConfigs)
    /\ WriteInit
    /\ PureIdle
    /\ ProgramIdle
    /\ matches \in MatchLists
    /\ finderPc = "loop"
    /\ mi = 0
    /\ devices = <<>>
    /\ ignored = {}

FinderNext == FinderNode \/ FinderReturn

FinderSpec == FinderInit /\ [][FinderNext]_vars

\* ------------------------------------------------------- writeChangeReport
MaxTicks == 3
MaxWrites == 3
TicksPerSecond == 2

\* A number below 100 in two digits.
Pad2(n) == <<DigitChars[(n \div 10) + 1], DigitChars[(n % 10) + 1]>>

\* time.Now().Format("20060102-150405") at clock tick t of some day: the
\* fraction of the second is dropped.
FormatStamp(t) ==
    LET secs == t \div TicksPerSecond
    IN  <<"20060102-">> \o Pad2((secs \div 3600) % 24)
                        \o Pad2((secs \div 60) % 60)
                        \o Pad2(secs % 60)

\* filepath.Join(deviceDir, fmt.Sprintf("change-%s.json", timestamp))
ReportPath(deviceDir, t) ==
    deviceDir \o <<"/">> \o <<"change-">> \o FormatStamp(t) \o <<".json">>

\* json.MarshalIndent of the change reports of two alerts.
ReportData == {<<"report", "1">>, <<"report", "2">>}

\* afero.WriteFile on a filesystem that takes the write: the file is created
\* or truncated, then written.
WriteFile(fs, path, data) == [fs |-> MapPut(fs, path, data), err |-> ""]

\* What writeChangeReport and the clock leave alone.
WriteFrame ==
    /\ UNCHANGED monitorVars
    /\ UNCHANGED finderVars
    /\ UNCHANGED buildVars
    /\ UNCHANGED progVars
    /\ UNCHANGED pureVars

\* writeChangeReport(report) on a filesystem that takes the write (fsysOk)
\* or refuses the directory or the file.
writeChangeReport(data, fsysOk) ==
    /\ Len(wlog) < MaxWrites
    /\ LET reportPath == ReportPath(D_out, now)
           w == WriteFile(files, reportPath, data)
       IN  IF fsysOk
           THEN /\ files' = w.fs
                /\ wlog' = Append(wlog, [path |-> reportPath, data |-> data, err |-> w.err])
           ELSE /\ files' = files
                /\ wlog' = Append(wlog, [path |-> reportPath, data |-> data,
                                         err |-> "failure writing to file"])
    /\ UNCHANGED now
    /\ WriteFrame

\* Half a second passes.
ClockTick ==
    /\ now < MaxTicks
    /\ now' = now + 1
    /\ UNCHANGED <<files, wlog>>
    /\ WriteFrame

\* A monitor with an empty output directory.
WriteSpecInit ==
    /\ MonitorInit(FullConfigs)
    /\ WriteInit
    /\ PureIdle
    /\ FinderIdle
    /\ ProgramIdle

WriteNext ==
    \/ \E data \in ReportData, fsysOk \in BOOLEAN : writeChangeReport(data, fsysOk)
    \/ ClockTick

WriteSpec == WriteSpecInit /\ [][WriteNext]_vars

\* ------------------------------------------------------ the notifier task
\* The device of the monitor (Device: Path, Address, Description).
TheDevice ==
    [Path |-> P_sg0, Address |-> A_a0, Description |-> <<"s","h","e","l","f">>]

\* json.Marshal(v): the compact JSON text of v, kept as the tagged value it
\* is the text of.
JsonMarshal(v) == <<"json:", v>>

\* A plausible slip: a missing extra is handed over as the JSON null.
NotifyArgs_AlwaysFive(device, message, extra) ==
    <<device.Path, device.Address, device.Description, message,
      IF IsNil(extra) THEN <<"null">> ELSE JsonMarshal(Deref(extra))>>

\* ScriptNotifier.Notify: the Args of the command it runs.
NotifyArgs(device, message, extra) ==
    LET args == <<device.Path, device.Address, device.Description, message>>
    IN  IF ~IsNil(extra) THEN Append(args, JsonMarshal(Deref(extra))) ELSE args

\* What the notifier's goroutine leaves alone in the monitor.
NotifierFrame ==
    /\ UNCHANGED <<cfg, ctxDone, stop, once, done, pollFailures,
                   lastAlertHash, previousResults, ret, attempt, tasks,
                   lastTask, changeReports, currentFiles, polls, stopCalls,
                   stopCloses, doneCloses, panicked, closePanic, counted,
                   sinceReset, succeeded, plainLogs, backoffLogs,
                   backoffWaits, lastOutcome>>
    /\ UNCHANGED otherVars

\* The goroutine of the notifier task started last begins to execute: the
\* scheduler may run it any time after the go statement. It calls Notify,
\* which builds the script's arguments; lastAlertHash at that moment is
\* noted.
NotifierBegins ==
    /\ ~IsNil(lastTask)
    /\ ~lastTaskRan
    /\ lastTaskRan' = TRUE
    /\ hashAtRun' = lastAlertHash
    /\ taskOutcome' = "running"
    /\ notifyArgs' = NotifyArgs(TheDevice, Deref(lastTask).msg, Deref(lastTask).extra)
    /\ UNCHANGED pc
    /\ NotifierFrame

\* A plausible slip: without the deferred recoverGoPanic the notifier's
\* panic ends the process, the monitor's goroutine with it.
NotifierPanicLeaves_Unrecovered(p, outcome) ==
    IF outcome = "panicked" THEN "crashed" ELSE p

\* Where the monitor's goroutine is after the notifier's goroutine ended:
\* where it was. Notify's error is logged, its panic recovered by the
\* goroutine's own deferred recoverGoPanic.
NotifierPanicLeaves(p, outcome) == p

\* Notify returns nil or an error, or panics. (A Notify that hangs never
\* takes this step.)
NotifierEnds(outcome) ==
    /\ taskOutcome = "running"
    /\ taskOutcome' = outcome
    /\ pc' = NotifierPanicLeaves(pc, outcome)
    /\ UNCHANGED <<lastTaskRan, hashAtRun, notifyArgs>>
    /\ NotifierFrame

\* A monitor with a notifier.
NotifyInit ==
    /\ MonitorInit(FullConfigs)
    /\ WriteInit
    /\ PureIdle
    /\ FinderIdle
    /\ ProgramIdle

NotifyNext ==
    \/ Next
    \/ NotifierBegins
    \/ \E outcome \in {"ok", "error", "panicked"} : NotifierEnds(outcome)

NotifySpec == NotifyInit /\ [][NotifyNext]_vars

\* The configurations of a monitor with a notifier that is told of alerts
\* and of back-offs, and that stops or waits at the first failed poll.
HangConfigs ==
    { c \in Configs : /\ c.notifier
                      /\ c.OutputDir
                      /\ c.fsysWritable
                      /\ c.PollBackoffNotify
                      /\ c.PollBackoffAfter = 1 }

\* A monitor with a notifier, with or without stop on back-off.
HangInit ==
    /\ MonitorInit(HangConfigs)
    /\ WriteInit
    /\ PureIdle
    /\ FinderIdle
    /\ ProgramIdle

\* The monitor's task is scheduled as in LiveSpec. Nothing is required of
\* the notifier's goroutines: the script Notify runs may take any time or
\* never return, so a behaviour may leave a notifier running for ever.
HangSpec == HangInit /\ [][NotifyNext]_vars
                     /\ WF_vars(MonitorTask) /\ SF_vars(LoopExit)

\* ---------------------------------------------------------------- parseSES
MaxElements == 2

\* The element_type objects of the documents: none, {"meaning":"Enc"},
\* {"i":15} and {"i":15,"meaning":"Enc"}.
ElementTypes ==
    {NilPtr,
     ptr([I |-> NilPtr, Meaning |-> ptr(S_Enclosure)]),
     ptr([I |-> ptr(15), Meaning |-> NilPtr]),
     ptr([I |-> ptr(15), Meaning |-> ptr(S_Enclosure)])}

\* The element_number fields of the documents: none, 0 and 1.
ElementNumbers == {NilPtr, ptr(0), ptr(1)}

\* A status_descriptor object with a status and the given temperature,
\* voltage and current objects.
Descriptor(temp, volt, curr) ==
    ptr([Status |-> ptr([I |-> ptr(1), Meaning |-> ptr(S_okPadded)]),
         PrdFail |-> ptr(0), Disabled |-> NilPtr, Swap |-> NilPtr,
         Temperature |-> temp, Voltage |-> volt, Current |-> curr])

\* The status_descriptor objects of the documents: none; without metrics;
\* with a temperature, a voltage and a current; and with a temperature, a
\* voltage or a current object that lacks its meaning, value_in_volts or
\* value_in_amps.
Descriptors ==
    {NilPtr,
     Descriptor(NilPtr, NilPtr, NilPtr),
     Descriptor(ptr([I |-> NilPtr, Meaning |-> ptr(S_25C)]),
                ptr([RawValue |-> NilPtr, ValueInVolts |-> ptr(<<"1","2"," ","V">>)]),
                ptr([RawValue |-> NilPtr, ValueInAmps |-> ptr(<<"5"," ","A">>)])),
     Descriptor(ptr([I |-> ptr(25), Meaning |-> NilPtr]), NilPtr, NilPtr),
     Descriptor(NilPtr, ptr([RawValue |-> ptr(12), ValueInVolts |-> NilPtr]), NilPtr),
     Descriptor(NilPtr, NilPtr, ptr([RawValue |-> ptr(5), ValueInAmps |-> NilPtr]))}

\* The elements json.Unmarshal yields for the documents.
Elements ==
    [ElementType : ElementTypes,
     ElementNumber : ElementNumbers,
     StatusDescriptor : Descriptors]

\* The documents parseSES is called with: one that json.Unmarshal rejects,
\* and the well-formed ones of up to MaxElements elements.
ParseDocs ==
    {DocUndecodable} \cup
    { [valid |-> TRUE, elements |-> els] :
        els \in UNION { [1..n -> Elements] : n \in 0..MaxElements } }

\* What a call of parseSES leaves alone.
ParseFrame ==
    /\ UNCHANGED monitorVars
    /\ UNCHANGED writeVars
    /\ UNCHANGED finderVars
    /\ UNCHANGED buildVars
    /\ UNCHANGED progVars
    /\ UNCHANGED diffVars
    /\ UNCHANGED retryVars
    /\ UNCHANGED tripVars

\* parseSES(b) from its call to its return or its panic.
ParseCall ==
    /\ ppc = "called"
    /\ pout' = parseSES(pdoc)
    /\ ppc' = "returned"
    /\ UNCHANGED pdoc
    /\ ParseFrame

\* parseSES is called with a document.
ParseInit ==
    /\ MonitorInit(FullConfigs)
    /\ WriteInit
    /\ FinderIdle
    /\ ProgramIdle
    /\ DiffIdle
    /\ RetryIdle
    /\ TripIdle
    /\ pdoc \in ParseDocs
    /\ ppc = "called"
    /\ pout = <<>>

ParseNext == ParseCall

ParseSpec == ParseInit /\ [][ParseNext]_vars

\* ---------------------------------------------------------------- rowsDiff
\* The element numbers of the result maps handed to rowsDiff.
DiffNumbers == {0, 1}

\* A Result as parseSES builds it for an element of type 15: status 1 "OK",
\* prdfail 0, 25 C.
BaseRow ==
    [ZeroResult EXCEPT !.Type = 15, !.TypeDesc = ptr(S_Enclosure),
                       !.Status = ptr(1), !.StatusDesc = ptr(S_OK),
                       !.PrdFail = ptr(0), !.Temperature = ptr(S_25C)]

\* The Results of the maps: the base row and the rows that differ from it in
\* one field, by a changed value, a value that is gone or a value that is new;
\* and the base row as an element of type 0.
DiffRows ==
    {BaseRow}
    \cup { [BaseRow EXCEPT !.Status = v] : v \in {NilPtr, ptr(2)} }
    \cup { [BaseRow EXCEPT !.StatusDesc = v] : v \in {NilPtr, ptr(<<"o","k">>), ptr(S_Critical)} }
    \cup { [BaseRow EXCEPT !.PrdFail = v] : v \in {NilPtr, ptr(1)} }
    \cup { [BaseRow EXCEPT !.Disabled = v] : v \in {ptr(0), ptr(1)} }
    \cup { [BaseRow EXCEPT !.Swap = v] : v \in {ptr(1)} }
    \cup { [BaseRow EXCEPT !.Temperature = v] : v \in {NilPtr, ptr(S_30C)} }
    \cup { [BaseRow EXCEPT !.Voltage = v] : v \in {ptr(<<"1","2"," ","V">>)} }
    \cup { [BaseRow EXCEPT !.Amperage = v] : v \in {ptr(<<"5"," ","A">>)} }
    \cup { [BaseRow EXCEPT !.TypeDesc = v] : v \in {NilPtr, ptr(S_OK)} }
    \cup { [BaseRow EXCEPT !.Type = 0] }

\* The map of the elements numbered S with the rows f, keyed as parseSES
\* keys them.
MapOf(S, f) ==
    LET row(n) == [f[n] EXCEPT !.TypeNum = n]
    IN  [k \in { keyFor(row(n)) : n \in S } |->
            row(CHOOSE n \in S : keyFor(row(n)) = k)]

\* The result maps handed to rowsDiff.
DiffMaps ==
    UNION { { MapOf(S, f) : f \in [S -> DiffRows] } : S \in SUBSET DiffNumbers }

\* What a call of rowsDiff leaves alone.
DiffFrame ==
    /\ UNCHANGED monitorVars
    /\ UNCHANGED writeVars
    /\ UNCHANGED finderVars
    /\ UNCHANGED buildVars
    /\ UNCHANGED progVars
    /\ UNCHANGED parseVars
    /\ UNCHANGED retryVars
    /\ UNCHANGED tripVars

\* rowsDiff(prev, curr) from its call to its return.
DiffCall ==
    /\ dpc = "called"
    /\ dout' = rowsDiff(dprev, dcurr)
    /\ dpc' = "returned"
    /\ UNCHANGED <<dprev, dcurr>>
    /\ DiffFrame

\* rowsDiff is called with two result maps.
DiffInit ==
    /\ MonitorInit(FullConfigs)
    /\ WriteInit
    /\ FinderIdle
    /\ ProgramIdle
    /\ ParseIdle
    /\ RetryIdle
    /\ TripIdle
    /\ dprev \in DiffMaps
    /\ dcurr \in DiffMaps
    /\ dpc = "called"
    /\ dout = {}

DiffNext == DiffCall

DiffSpec == DiffInit /\ [][DiffNext]_vars

\* ------------------------------------------------- a device with metrics
\* A monitor with a notifier and an output directory, on a device that
\* answers with the documents of MetricDocs.
MetricConfigs == { [c EXCEPT !.device = MetricDocs] : c \in FullConfigs }

MetricInit ==
    /\ MonitorInit(MetricConfigs)
    /\ WriteInit
    /\ PureIdle
    /\ FinderIdle
    /\ ProgramIdle

MetricSpec == MetricInit /\ [][Next]_vars

\* ====================================================== RetryCommandRunner
\* ------------------------------------------------------------- json.Valid
\* json.Valid on the texts a child prints here: a number, an empty object,
\* or an array that is empty or holds one value.
RECURSIVE JsonValid(_)
JsonValid(s) ==
    IF s = <<>> THEN FALSE
    ELSE IF \A i \in 1..Len(s) : s[i] \in {DigitChars[d] : d \in DOMAIN DigitChars} THEN TRUE
    ELSE IF s = <<"{", "}">> \/ s = <<"[", "]">> THEN TRUE
    ELSE /\ Len(s) > 2
         /\ s[1] = "["
         /\ s[Len(s)] = "]"
         /\ JsonValid(SubSeq(s, 2, Len(s) - 1))

\* ------------------------------------------------------------ Run's inputs
\* The largest cfg.Attempts of a run.
MaxAttempts == 3

\* What a child prints to its standard output.
Stdouts ==
    { <<"{", "}">>, <<"[", "7", "]">>, <<"n", "o">>, <<"[", "7">>, <<>> }

\* What a child prints to its standard error.
Stderrs == { <<>>, <<"e", "r", "r">> }

\* The runs: cfg.Attempts (which the configuration keeps above zero, and
\* withRetries takes as it comes), cfg.ExpectJSON, and withRetries called
\* with Run's function or with none.
RunConfigs ==
    [Attempts : 0..MaxAttempts, ExpectJSON : BOOLEAN, fnNil : BOOLEAN]

\* -------------------------------------------------------------- withRetries
\* The variables Run's function and withRetries do not touch.
RetryFrame ==
    /\ UNCHANGED monitorVars
    /\ UNCHANGED writeVars
    /\ UNCHANGED finderVars
    /\ UNCHANGED buildVars
    /\ UNCHANGED progVars
    /\ UNCHANGED parseVars
    /\ UNCHANGED diffVars
    /\ UNCHANGED tripVars
    /\ UNCHANGED <<rcfg>>

\* Run after withRetries returned (attempt, err): stdout and stderr as the
\* last invocation left them, and err wrapped (its kind kept).
RunReturns(err, out, errOut) == [stdout |-> out, stderr |-> errOut, err |-> err]

\* withRetries returns (attempt, err), and Run returns after it.
Returns(count, err, out, errOut) ==
    /\ rpc' = "returned"
    /\ rret' = [attempt |-> count, err |-> err]
    /\ rrun' = IF rcfg.fnNil THEN rrun ELSE RunReturns(err, out, errOut)

\* if fn == nil { return attempt, errInvalidArgument }.
WithRetriesEntry ==
    /\ rpc = "entry"
    /\ IF rcfg.fnNil
       THEN Returns(rattempt, "invalidArgument", rstdout, rstderr)
       ELSE /\ rpc' = "loop"
            /\ UNCHANGED <<rret, rrun>>
    /\ UNCHANGED <<rctx, ri, rattempt, re, rstdout, rstderr, rcalls, rwaits,
                   rlogged>>
    /\ RetryFrame

\* A plausible slip: the loop runs once more than attempts.
MoreAttempts_OneMore(i, attempts) == i <= attempts

\* for range attempts: another iteration follows i of them.
MoreAttempts(i, attempts) == i < attempts

\* A plausible slip: the context is looked at only while waiting.
CtxErrBeforeAttempt_Unchecked(cancelled) == FALSE

\* ctx.Err() != nil at the head of an iteration.
CtxErrBeforeAttempt(cancelled) == cancelled

\* The head of the loop: it ends (return attempt, e), or the iteration finds
\* the context cancelled (return attempt, context error), or goes on to fn.
LoopHead ==
    /\ rpc = "loop"
    /\ IF ~MoreAttempts(ri, rcfg.Attempts)
       THEN /\ Returns(rattempt, re, rstdout, rstderr)
            /\ UNCHANGED ri
       ELSE IF CtxErrBeforeAttempt(rctx)
       THEN /\ Returns(rattempt, "context", rstdout, rstderr)
            /\ UNCHANGED ri
       ELSE /\ rpc' = "call"
            /\ ri' = ri + 1
            /\ UNCHANGED <<rret, rrun>>
    /\ UNCHANGED <<rctx, rattempt, re, rstdout, rstderr, rcalls, rwaits, rlogged>>
    /\ RetryFrame

\* A plausible slip: the output is not looked at.
AttemptError_Unvalidated(exit, expectJSON, out) ==
    IF exit # "nil" THEN exit ELSE "nil"

\* The error Run's function returns: cmd.Run()'s, or errInvalidJSON when the
\* child succeeded, JSON is expected and its standard output is not JSON.
AttemptError(exit, expectJSON, out) ==
    IF exit = "nil" /\ expectJSON /\ ~JsonValid(out) THEN "invalidJSON" ELSE exit

\* A plausible slip: the wait follows every failed attempt.
WaitsAfter_EveryFailure(made, attempts) == TRUE

\* if attempt < attempts { select ... }.
WaitsAfter(made, attempts) == made < attempts

\* fn() returned: cmd.Run() ended with exit, the buffers hold out and
\* errOut. withRetries counts the attempt; returns on success; otherwise
\* calls onAttemptErr and waits or goes to the next iteration.
FnReturns(exit, out, errOut) ==
    LET e == AttemptError(exit, rcfg.ExpectJSON, out)
        made == rattempt + 1
    IN  /\ rstdout' = out
        /\ rstderr' = errOut
        /\ re' = e
        /\ rattempt' = made
        /\ rcalls' = Append(rcalls, [exit |-> exit, stdout |-> out,
                                     stderr |-> errOut, err |-> e,
                                     cancelled |-> rctx])
        /\ IF e = "nil"
           THEN /\ Returns(made, "nil", out, errOut)
                /\ UNCHANGED <<rwaits, rlogged>>
           ELSE /\ rlogged' = rlogged + 1
                /\ UNCHANGED <<rret, rrun>>
                /\ IF WaitsAfter(made, rcfg.Attempts)
                   THEN /\ rpc' = "wait"
                        /\ rwaits' = rwaits + 1
                   ELSE /\ rpc' = "loop"
                        /\ UNCHANGED rwaits
        /\ UNCHANGED <<rctx, ri>>
        /\ RetryFrame

\* fn() begins: exec.CommandContext's Start. With the context cancelled
\* already the child is not started and cmd.Run() returns the context's
\* error with empty buffers.
FnStarts ==
    /\ rpc = "call"
    /\ IF rctx
       THEN FnReturns("exit", <<>>, <<>>)
       ELSE /\ rpc' = "running"
            /\ UNCHANGED <<rctx, ri, rattempt, re, rstdout, rstderr, rret,
                           rrun, rcalls, rwaits, rlogged>>
            /\ RetryFrame

\* The child ends: with success or not (it failed, was killed at the
\* attempt's deadline or on cancellation), having printed something.
FnEnds(exit, out, errOut) ==
    /\ rpc = "running"
    /\ FnReturns(exit, out, errOut)

\* case <-time.After(interval).
WaitElapsed ==
    /\ rpc = "wait"
    /\ rpc' = "loop"
    /\ UNCHANGED <<rctx, ri, rattempt, re, rstdout, rstderr, rret, rrun,
                   rcalls, rwaits, rlogged>>
    /\ RetryFrame

\* case <-ctx.Done(): return attempt, context error.
WaitCancelled ==
    /\ rpc = "wait"
    /\ rctx
    /\ Returns(rattempt, "context", rstdout, rstderr)
    /\ UNCHANGED <<rctx, ri, rattempt, re, rstdout, rstderr, rcalls, rwaits,
                   rlogged>>
    /\ RetryFrame

\* The caller cancels the context while the run is under way.
RunCancel ==
    /\ rpc \notin {"idle", "returned"}
    /\ ~rctx
    /\ rctx' = TRUE
    /\ UNCHANGED <<rpc, ri, rattempt, re, rstdout, rstderr, rret, rrun,
                   rcalls, rwaits, rlogged>>
    /\ RetryFrame

\* A run is called, its context cancelled already or not.
RetryInit ==
    /\ MonitorInit(FullConfigs)
    /\ WriteInit
    /\ FinderIdle
    /\ ProgramIdle
    /\ ParseIdle
    /\ DiffIdle
    /\ TripIdle
    /\ rcfg \in RunConfigs
    /\ rctx \in BOOLEAN
    /\ rpc = "entry"
    /\ RetryLocals

RetryNext ==
    \/ WithRetriesEntry
    \/ LoopHead
    \/ FnStarts
    \/ \E exit \in {"nil", "exit"}, out \in Stdouts, errOut \in Stderrs :
           FnEnds(exit, out, errOut)
    \/ WaitElapsed
    \/ WaitCancelled
    \/ RunCancel

RetrySpec == RetryInit /\ [][RetryNext]_vars

\* ================================================ the parsed snapshot
\* ------------------------------------------------------------ JSON values
JNull == [kind |-> "null"]
JNum(n) == [kind |-> "number", n |-> n]
JStr(str) == [kind |-> "string", s |-> str]
JArr(items) == [kind |-> "array", items |-> items]
\* An object: its members by key (a key is one token).
JObj(f) == [kind |-> "object", fields |-> f]

\* The member of an object a struct field's tag names; a member that is
\* missing leaves the field as a null does.
Member(o, key) == IF <<key>> \in DOMAIN o.fields THEN o.fields[<<key>>] ELSE JNull

\* ------------------------------------------------------------ json.Marshal
\* The members of an object from pairs <<key, value>>: a null stands for a
\* nil pointer that omitempty leaves out.
Members(members) ==
    LET kept == { m \in members : m[2].kind # "null" }
    IN  [k \in { <<m[1]>> : m \in kept } |->
            (CHOOSE m \in kept : <<m[1]>> = k)[2]]

\* The value of a pointer field, a null for a nil pointer.
OptNum(p) == IF IsNil(p) THEN JNull ELSE JNum(Deref(p))
OptStr(p) == IF IsNil(p) THEN JNull ELSE JStr(Deref(p))

\* json.Marshal of a Result, by its struct tags.
MarshalResult(r) ==
    JObj(Members({
        <<"element_type", JNum(r.Type)>>,
        <<"element_type_number", JNum(r.TypeNum)>>,
        <<"element_type_desc", OptStr(r.TypeDesc)>>,
        <<"status", OptNum(r.Status)>>,
        <<"status_desc", OptStr(r.StatusDesc)>>,
        <<"prdfail", OptNum(r.PrdFail)>>,
        <<"disabled", OptNum(r.Disabled)>>,
        <<"swap", OptNum(r.Swap)>>,
        <<"temperature", OptStr(r.Temperature)>>,
        <<"voltage", OptStr(r.Voltage)>>,
        <<"amperage", OptStr(r.Amperage)>> }))

\* writeCurrentData's json.MarshalIndent(parsed, "", "  "): an object with a
\* member for every key of the map.
MarshalParsed(m) == JObj([k \in DOMAIN m |-> MarshalResult(m[k])])

\* ---------------------------------------------------------- json.Unmarshal
\* Each decoder gives [ok, v]: whether the value fits the Go type, and the
\* decoded value.
DecInt(v) ==
    IF v.kind = "null" THEN [ok |-> TRUE, v |-> NilPtr]
    ELSE IF v.kind = "number" THEN [ok |-> TRUE, v |-> ptr(v.n)]
    ELSE [ok |-> FALSE, v |-> NilPtr]

DecStr(v) ==
    IF v.kind = "null" THEN [ok |-> TRUE, v |-> NilPtr]
    ELSE IF v.kind = "string" THEN [ok |-> TRUE, v |-> ptr(v.s)]
    ELSE [ok |-> FALSE, v |-> NilPtr]

\* *ElementType and *CodeMeaning: i and meaning.
DecCodeMeaning(v) ==
    IF v.kind = "null" THEN [ok |-> TRUE, v |-> NilPtr]
    ELSE IF v.kind # "object" THEN [ok |-> FALSE, v |-> NilPtr]
    ELSE LET i == DecInt(Member(v, "i"))
             m == DecStr(Member(v, "meaning"))
         IN  [ok |-> i.ok /\ m.ok, v |-> ptr([I |-> i.v, Meaning |-> m.v])]

\* *Voltage.
DecVoltage(v) ==
    IF v.kind = "null" THEN [ok |-> TRUE, v |-> NilPtr]
    ELSE IF v.kind # "object" THEN [ok |-> FALSE, v |-> NilPtr]
    ELSE LET raw == DecInt(Member(v, "raw_value"))
             volts == DecStr(Member(v, "value_in_volts"))
         IN  [ok |-> raw.ok /\ volts.ok,
              v |-> ptr([RawValue |-> raw.v, ValueInVolts |-> volts.v])]

\* *Current.
DecCurrent(v) ==
    IF v.kind = "null" THEN [ok |-> TRUE, v |-> NilPtr]
    ELSE IF v.kind # "object" THEN [ok |-> FALSE, v |-> NilPtr]
    ELSE LET raw == DecInt(Member(v, "raw_value"))
             amps == DecStr(Member(v, "value_in_amps"))
         IN  [ok |-> raw.ok /\ amps.ok,
              v |-> ptr([RawValue |-> raw.v, ValueInAmps |-> amps.v])]

\* *StatusDescriptor.
DecDescriptor(v) ==
    IF v.kind = "null" THEN [ok |-> TRUE, v |-> NilPtr]
    ELSE IF v.kind # "object" THEN [ok |-> FALSE, v |-> NilPtr]
    ELSE LET st == DecCodeMeaning(Member(v, "status"))
             pf == DecInt(Member(v, "prdfail"))
             di_ == DecInt(Member(v, "disabled"))
             sw == DecInt(Member(v, "swap"))
             te == DecCodeMeaning(Member(v, "temperature"))
             vo == DecVoltage(Member(v, "voltage"))
             cu == DecCurrent(Member(v, "current"))
         IN  [ok |-> st.ok /\ pf.ok /\ di_.ok /\ sw.ok /\ te.ok /\ vo.ok /\ cu.ok,
              v |-> ptr([Status |-> st.v, PrdFail |-> pf.v, Disabled |-> di_.v,
                         Swap |-> sw.v, Temperature |-> te.v, Voltage |-> vo.v,
                         Current |-> cu.v])]

\* Element, a member of the element list (a null leaves the zero Element).
DecElement(v) ==
    LET zero == [ElementType |-> NilPtr, ElementNumber |-> NilPtr,
                 StatusDescriptor |-> NilPtr]
    IN  IF v.kind = "null" THEN [ok |-> TRUE, v |-> zero]
        ELSE IF v.kind # "object" THEN [ok |-> FALSE, v |-> zero]
        ELSE LET et == DecCodeMeaning(Member(v, "element_type"))
                 en == DecInt(Member(v, "element_number"))
                 sd == DecDescriptor(Member(v, "status_descriptor"))
             IN  [ok |-> et.ok /\ en.ok /\ sd.ok,
                  v |-> [ElementType |-> et.v, ElementNumber |-> en.v,
                         StatusDescriptor |-> sd.v]]

\* []Element.
DecElementList(v) ==
    IF v.kind = "null" THEN [ok |-> TRUE, v |-> <<>>]
    ELSE IF v.kind # "array" THEN [ok |-> FALSE, v |-> <<>>]
    ELSE [ok |-> \A i \in 1..Len(v.items) : DecElement(v.items[i]).ok,
          v |-> [i \in 1..Len(v.items) |-> DecElement(v.items[i]).v]]

\* JoinPages.
DecJoin(v) ==
    IF v.kind = "null" THEN [ok |-> TRUE, v |-> <<>>]
    ELSE IF v.kind # "object" THEN [ok |-> FALSE, v |-> <<>>]
    ELSE DecElementList(Member(v, "element_list"))

\* parseSES's json.Unmarshal(b, &root): the document [valid, elements] of
\* a JSON value. Members Root has no field for are passed over.
UnmarshalRoot(j) ==
    IF j.kind = "null" THEN [valid |-> TRUE, elements |-> <<>>]
    ELSE IF j.kind # "object" THEN [valid |-> FALSE, elements |-> <<>>]
    ELSE LET join == DecJoin(Member(j, "join_of_diagnostic_pages"))
         IN  [valid |-> join.ok, elements |-> IF join.ok THEN join.v ELSE <<>>]

\* ---------------------------------------------------- sg_ses's own output
\* What sg_ses --json prints for an element that parseSES reads as r: the
\* join of the diagnostic pages with that one element.
SesJson(r) ==
    LET inObject(key, v) ==
            IF v.kind = "null" THEN JNull ELSE JObj(<<key>> :> v)
        type == JObj(Members({
                    <<"i", JNum(r.Type)>>,
                    <<"meaning", OptStr(r.TypeDesc)>> }))
        status == JObj(Members({
                    <<"i", OptNum(r.Status)>>,
                    <<"meaning", OptStr(r.StatusDesc)>> }))
        descriptor == JObj(Members({
                    <<"status", status>>,
                    <<"prdfail", OptNum(r.PrdFail)>>,
                    <<"disabled", OptNum(r.Disabled)>>,
                    <<"swap", OptNum(r.Swap)>>,
                    <<"temperature", inObject("meaning", OptStr(r.Temperature))>>,
                    <<"voltage", inObject("value_in_volts", OptStr(r.Voltage))>>,
                    <<"current", inObject("value_in_amps", OptStr(r.Amperage))>> }))
        element == JObj(Members({
                    <<"element_type", type>>,
                    <<"element_number", JNum(r.TypeNum)>>,
                    <<"status_descriptor", descriptor>> }))
    IN  JObj(<<"join_of_diagnostic_pages">> :>
                JObj(<<"element_list">> :> JArr(<<element>>)))

\* ------------------------------------------------------- the round trip
\* What a round trip leaves alone.
TripFrame ==
    /\ UNCHANGED monitorVars
    /\ UNCHANGED writeVars
    /\ UNCHANGED finderVars
    /\ UNCHANGED buildVars
    /\ UNCHANGED progVars
    /\ UNCHANGED parseVars
    /\ UNCHANGED diffVars
    /\ UNCHANGED retryVars
    /\ UNCHANGED tmap

\* writeCurrentData marshals the parsed results for current_parsed.json.
TripWrite ==
    /\ tpc = "start"
    /\ tjson' = MarshalParsed(tmap)
    /\ tpc' = "written"
    /\ UNCHANGED tback
    /\ TripFrame

\* sg_ses prints the one element of the map instead.
TripFetch ==
    /\ tpc = "start"
    /\ Cardinality(DOMAIN tmap) = 1
    /\ tjson' = SesJson(tmap[CHOOSE k \in DOMAIN tmap : TRUE])
    /\ tpc' = "fetched"
    /\ UNCHANGED tback
    /\ TripFrame

\* parseSES is called with the JSON at hand.
TripParse ==
    /\ tpc \in {"written", "fetched"}
    /\ tback' = parseSES(UnmarshalRoot(tjson))
    /\ tpc' = IF tpc = "written" THEN "reparsed" ELSE "parsed"
    /\ UNCHANGED tjson
    /\ TripFrame

\* A Result map is at hand.
TripInit ==
    /\ MonitorInit(FullConfigs)
    /\ WriteInit
    /\ FinderIdle
    /\ ProgramIdle
    /\ ParseIdle
    /\ DiffIdle
    /\ RetryIdle
    /\ tmap \in DiffMaps
    /\ tpc = "start"
    /\ tjson = <<>>
    /\ tback = <<>>

TripNext ==
    \/ TripWrite
    \/ TripFetch
    \/ TripParse

TripSpec == TripInit /\ [][TripNext]_vars

\* ================================================================ claims
\* The threshold of the monitor's configuration.
N == cfg.PollBackoffAfter

\* C1 (as the documentation of PollBackoffAfter states it): a back-off
\* action, the back-off wait or the stop on back-off, is taken only when
\* PollBackoffAfter failed polls were accounted with no successful poll
\* and no elapsed back-off in between. The code counts failures across
\* successful polls, so this fails.
C1_BackoffOnlyAfterConsecutiveFailures ==
    [][backoffLogs' > backoffLogs => sinceReset' >= N]_vars

\* C2 (as stated): once the stop signal is closed or the context is
\* cancelled, no further poll is started. Start polls before it looks at
\* either, and the loop's select may take a pending tick, so this fails.
C2_NoPollAfterStopOrCancel ==
    [][(stop \/ ctxDone) => polls' = polls]_vars

\* The configuration of C3: stop on back-off, notify, a notifier given.
StopOnBackoffNotified ==
    /\ cfg.PollBackoffStopMonitor
    /\ cfg.PollBackoffNotify
    /\ cfg.notifier

\* C3: with stop on back-off, back-off notification and a notifier, once
\* pollFailures has reached PollBackoffAfter exactly one back-off notifier
\* task was started (carrying the stopping message and no extra when it
\* was started), the stop signal is closed, no back-off wait was begun, and
\* Done fires eventually.
C3_BackoffWithStop ==
    /\ [][(StopOnBackoffNotified /\ tasks'.backoff # tasks.backoff)
           => lastTask' = ptr(NotifierTask("backoff", BackoffMessage(N, cfg), NilPtr))]_vars
    /\ [](StopOnBackoffNotified /\ BackoffReached(pollFailures, N)
           => /\ tasks.backoff = 1
              /\ stop
              /\ stopCloses = 1
              /\ backoffWaits = 0
              /\ pc # "backoffWait")
    /\ ((StopOnBackoffNotified /\ BackoffReached(pollFailures, N)) ~> done)

\* C3's case: the threshold was reached at the second failure, the one
\* notification went out and Done has fired.
C3_Witness ==
    /\ StopOnBackoffNotified
    /\ N = 2
    /\ pollFailures = 2
    /\ tasks.backoff = 1
    /\ stop
    /\ done

\* C4: without stop on back-off and with no poll succeeding, after any
\* number of accounted failures there was one back-off log line and one
\* back-off wait per N of them, one notification per back-off if
\* notifications are on and none otherwise, a plain log line for every other
\* failure, and pollFailures counts the failures of the current cycle: it
\* is back at 0 when a wait has elapsed and stays at N only during the wait
\* or when the wait was cut short by Stop or cancellation.
C4_OneBackoffPerNFailures ==
    (~cfg.PollBackoffStopMonitor /\ ~succeeded) =>
        /\ backoffLogs = counted \div N
        /\ backoffWaits = backoffLogs
        /\ tasks.backoff = (IF BackoffNotifies(cfg) THEN backoffLogs ELSE 0)
        /\ plainLogs = counted - backoffLogs
        /\ \/ pollFailures = counted % N
           \/ /\ pollFailures = N
              /\ counted % N = 0
              /\ counted > 0
              /\ pc = "backoffWait" \/ ctxDone \/ stop

\* C4's case: N = 2 and three polls failed: one back-off was taken after
\* the second, its wait elapsed, and the third failure is the first of the
\* next cycle.
C4_Witness ==
    /\ ~cfg.PollBackoffStopMonitor
    /\ ~succeeded
    /\ N = 2
    /\ counted = 3
    /\ backoffWaits = 1
    /\ plainLogs = 2
    /\ pollFailures = 1

\* The poll at pc = "process" fetched a document that parseSES turns into a
\* map: the poll is a successful one.
ParsesToMap == ~Parsed[ret].err /\ ~Parsed[ret].panic

\* Two result maps are equal: the same keys, and every pair of rows equal
\* under the five-field equality.
MapsEqual(a, b) ==
    /\ DOMAIN a = DOMAIN b
    /\ \A k \in DOMAIN a : rowsEqual(a[k], b[k])

AlertDue ==
    /\ ParsesToMap
    /\ ~IsNil(previousResults)
    /\ rowsDiff(Deref(previousResults), Parsed[ret].m) # {}
    /\ Sha256Hex(AlertMessage(rowsDiff(Deref(previousResults), Parsed[ret].m)))
         # lastAlertHash

\* C7: such a poll starts exactly one notifier task if a notifier is given
\* (none otherwise), carrying the message of the diff and the changes; and
\* when the poll returns, having started no further task, lastAlertHash is
\* the hash of exactly that message, with or without notifier and output
\* directory.
C7_AlertDispatch ==
    [][/\ (pc = "process" /\ pc' # pc /\ AlertDue)
          => LET changes == rowsDiff(Deref(previousResults), Parsed[ret].m) IN
             /\ pc' = "handleAlert"
             /\ tasks'.backoff = tasks.backoff
             /\ IF cfg.notifier
                THEN /\ tasks'.alert = tasks.alert + 1
                     /\ lastTask' = ptr(NotifierTask("alert", AlertMessage(changes),
                                                     ptr(changes)))
                ELSE UNCHANGED <<tasks, lastTask>>
       /\ (pc = "handleAlert" /\ pc' # pc)
          => /\ lastAlertHash' = Sha256Hex(AlertMessage(
                    rowsDiff(Deref(previousResults), Parsed[ret].m)))
             /\ UNCHANGED <<tasks, lastTask>>
             /\ previousResults' = ptr(Parsed[ret].m)
             /\ pc' = "select"]_vars

\* C7's case: without notifier and without output directory a status change
\* from OK to Critical was alerted, and the poll has returned with the hash
\* of its message stored.
C7_Witness ==
    /\ ~cfg.notifier
    /\ ~cfg.OutputDir
    /\ lastOutcome = "alert"
    /\ pc = "select"
    /\ previousResults = ptr(Parsed[DocCritical].m)
    /\ lastAlertHash = Sha256Hex(AlertMessage(rowsDiff(Parsed[DocOK].m,
                                                        Parsed[DocCritical].m)))

\* C8: as long as no poll has succeeded nothing was alerted, and the first
\* successful poll only stores its map: it starts no notifier task, writes
\* no change report, and lastAlertHash is still empty when it returns.
C8_FirstPollOnlyStores ==
    [][/\ IsNil(previousResults')
          => /\ lastAlertHash' = <<>>
             /\ tasks'.alert = 0
             /\ changeReports' = 0
       /\ (pc = "process" /\ pc' # pc /\ IsNil(previousResults) /\ ParsesToMap)
          => /\ previousResults' = ptr(Parsed[ret].m)
             /\ lastAlertHash' = <<>>
             /\ UNCHANGED <<tasks, lastTask, changeReports>>
             /\ pc' = "select"]_vars

\* C8's case: the first successful poll came after an accounted failure
\* and parsed to the empty map.
C8_Witness ==
    /\ lastOutcome = "first"
    /\ counted >= 1
    /\ previousResults = ptr(EmptyMap)
    /\ lastAlertHash = <<>>
    /\ tasks.alert = 0

\* C9: once the context is cancelled or the stop signal closed, the Done
\* signal of a started monitor fires eventually, wherever its task is.
C9_CancellationLiveness ==
    ((ctxDone \/ stop) /\ pc # "idle") ~> done

\* C9's case: Stop was called while the task was in a back-off wait (the
\* wait was begun and the counter was not reset), the context was never
\* cancelled, and Done has fired.
C9_Witness ==
    /\ done
    /\ ~panicked
    /\ stopCalls >= 1
    /\ ~ctxDone
    /\ backoffWaits = 1
    /\ pollFailures = N

\* C10: whoever calls Stop and however often, the stop signal is closed at
\* most once, closed exactly when the one-shot has run, no close of a closed
\* channel happens, and a call after the first changes nothing.
C10_StopIdempotence ==
    [][/\ stopCloses' <= 1
       /\ ~closePanic'
       /\ stop' = once'
       /\ stopCloses' = (IF stop' THEN 1 ELSE 0)
       /\ once => UNCHANGED stopVars]_vars

\* C10's case: the monitor stopped itself on back-off, Stop was called from
\* outside as often as the model allows, and the deferred Stop has run.
C10_Witness ==
    /\ cfg.PollBackoffStopMonitor
    /\ backoffLogs >= 1
    /\ stopCalls = MaxStopCalls
    /\ done
    /\ stopCloses = 1

\* C11: a panic inside a monitor's polling loop is recovered: the loop ends,
\* the monitor's Done is closed exactly once (never twice, and eventually
\* once), and once every monitor of a started Program is done the Program's
\* own Done is closed.
C11_PanicContainment ==
    /\ [](\A k \in DOMAIN monitors : mdoneCloses[k] <= 1)
    /\ \A k \in ExistingDevices :
          (k \in DOMAIN monitors /\ mpanicked[k])
              ~> (k \in DOMAIN monitors /\ mpc[k] = "done" /\ mdoneCloses[k] = 1)
    /\ (/\ progPc = "started"
        /\ \E k \in DOMAIN monitors : mpanicked[k]
        /\ \A k \in DOMAIN monitors : mpc[k] = "done" \/ mpanicked[k])
           ~> (pdone = 1)

\* Both monitors of a Program panicked, neither was stopped from outside, and
\* the Program's Done is closed.
C11_Witness ==
    /\ Cardinality(DOMAIN monitors) = 2
    /\ \A k \in DOMAIN monitors : mpanicked[k] /\ mdoneCloses[k] = 1
    /\ ~ctxDone
    /\ pdone = 1

\* C12: the Program's Done is closed only in states where every monitor of
\* the Program has closed its own Done, it is closed at most once, and once
\* every monitor of a started Program has closed its Done the Program's Done
\* is eventually closed.
C12_DoneAfterEveryMonitor ==
    /\ [](pdone >= 1 => \A k \in DOMAIN monitors : mdoneCloses[k] >= 1)
    /\ [](pdone <= 1)
    /\ (/\ progPc = "started"
        /\ \A k \in DOMAIN monitors : mdoneCloses[k] >= 1)
           ~> (pdone = 1)

\* Two monitors were stopped by Program.Stop without a panic or a
\* cancellation, both closed their Done, and the Program's Done is closed.
C12_Witness ==
    /\ Cardinality(DOMAIN monitors) = 2
    /\ \A k \in DOMAIN monitors : ~mpanicked[k] /\ mstop[k] /\ mdoneCloses[k] = 1
    /\ ~ctxDone
    /\ pdone = 1

\* C13: after NewProgram has succeeded, no two monitors share a resolved
\* device path (the monitors are keyed by it) and no two monitors share an
\* effective output directory, the directory mergeDeviceMonitorConfig leaves
\* in the monitor's configuration.
C13_SupervisorUniqueness ==
    HasProgram(built) =>
        \A j, k \in DOMAIN monitors :
            (j # k /\ ~IsNil(monitors[j].OutputDir))
                => monitors[j].OutputDir # monitors[k].OutputDir

\* An enabled entry that fails validation (neither device nor address),
\* identity resolution, or construction (no such device node).
EntryFails(deviceCfg) ==
    /\ deviceCfg.Enabled
    /\ \/ deviceCfg.Device = <<>> /\ deviceCfg.Address = <<>>
       \/ lookupDevice(deviceCfg, finder).err # ""
       \/ lookupDevice(deviceCfg, finder).cfg.Device \notin ExistingDevices

\* C14: when NewProgram's loop comes to an enabled entry that fails
\* validation, identity resolution or construction, it returns an error; an error is final, and in
\* every state in which NewProgram has returned an error nothing was started:
\* Program.Start has not run, no monitor built for an earlier entry has left
\* its idle state, and no Done was closed.
C14_NoPartialStart ==
    /\ [][(/\ built = "running"
            /\ di < Len(config)
            /\ EntryFails(config[di + 1])
            /\ buildVars' # buildVars) => (built' \in NewProgramErrors)]_vars
    /\ [][(built \in NewProgramErrors) => (built' = built)]_vars
    /\ [](built \in NewProgramErrors =>
             /\ progPc = "idle"
             /\ pdone = 0
             /\ \A k \in DOMAIN monitors :
                   mpc[k] = "idle" /\ mdoneCloses[k] = 0 /\ ~wgDone[k])

\* NewProgram failed on its second entry after it had built the monitor of
\* the first.
C14_Witness ==
    /\ built \in NewProgramErrors
    /\ Cardinality(DOMAIN monitors) = 1

\* A non-empty devices list without an enabled entry.
AllDisabled ==
    /\ Len(config) > 0
    /\ \A i \in 1..Len(config) : ~config[i].Enabled

LookupCase ==
    /\ built = "running"
    /\ di < Len(config)
    /\ config[di + 1].Enabled
    /\ config[di + 1].Device # <<>> \/ config[di + 1].Address # <<>>

\* The seven identity resolution rules for one call of lookupDevice.
ResolutionRules(e, fnd, r) ==
    LET hasAddr == e.Address # <<>>
        hasPath == e.Device # <<>>
        resolves == hasAddr /\ ~IsNil(fnd) /\ e.Address \in DOMAIN Deref(fnd)
        known == ~IsNil(fnd) /\ \E a \in DOMAIN Deref(fnd) : Deref(fnd)[a] = e.Device
    IN  /\ r.err \in {"", "errDeviceLookupFailed"}
        /\ (r.err = "errDeviceLookupFailed") <=> (hasAddr /\ ~resolves /\ ~hasPath)
        /\ r.err = "" =>
              /\ r.cfg.Device # <<>>
              /\ resolves =>
                    /\ r.cfg.Device = Deref(fnd)[e.Address]
                    /\ r.cfg.Address = e.Address
              /\ (hasAddr /\ ~resolves) =>
                    /\ r.cfg.Device = e.Device
                    /\ r.cfg.Address = <<>>
              /\ (hasAddr /\ r.cfg.Address = <<>>) <=> (hasAddr /\ ~resolves /\ hasPath)
              /\ (~hasAddr /\ known) =>
                    /\ r.cfg.Device = e.Device
                    /\ r.cfg.Address # <<>>
                    /\ Deref(fnd)[r.cfg.Address] = e.Device
              /\ (~hasAddr /\ ~known) =>
                    /\ r.cfg.Device = e.Device
                    /\ r.cfg.Address = <<>>
        /\ r.cfg.Enabled = e.Enabled
        /\ r.cfg.OutputDir = e.OutputDir

\* C16: for every entry NewProgram hands to lookupDevice (an address or a
\* path is configured), with or without a lookup table, lookupDevice follows
\* the seven resolution rules: it fails with errDeviceLookupFailed exactly
\* when an address is configured, does not resolve and no path is configured;
\* on success the path is not empty, a resolved address overrides the
\* configured path, and the address is cleared exactly when a configured
\* address did not resolve and the configured path is used; and the monitor
\* NewProgram then builds carries the completed path and address.
C16_IdentityResolution ==
    /\ [](LookupCase =>
             ResolutionRules(config[di + 1], finder,
                             lookupDevice(config[di + 1], finder)))
    /\ [][(LookupCase /\ di' = di + 1) =>
             LET r == lookupDevice(config[di + 1], finder)
             IN  /\ r.err = ""
                 /\ r.cfg.Device \in DOMAIN monitors'
                 /\ monitors'[r.cfg.Device].Address = r.cfg.Address]_vars

\* The monitor of /dev/sg0 was built from an entry whose address is not in
\* the lookup table: the configured path was used and the address cleared.
C16_Witness ==
    /\ built = "running"
    /\ di = 1
    /\ ~IsNil(finder)
    /\ config[1].Address = A_a1
    /\ config[1].Device = P_sg0
    /\ P_sg0 \in DOMAIN monitors
    /\ monitors[P_sg0].Address = <<>>

\* The nodes on which the address a was observed.
NodesWith(a) ==
    { i \in 1..Len(matches) :
        ~IsNil(matches[i].sas) /\ SasOf(Deref(matches[i].sas)) = a }

\* The addresses observed on some node.
Observed ==
    { SasOf(Deref(matches[i].sas)) :
        i \in { j \in 1..Len(matches) : ~IsNil(matches[j].sas) } } \ {<<>>}

\* C17: once NewDeviceFinder has returned, an address observed on two or
\* more nodes is not in the index (FindDevice does not find it, FindAddress
\* returns it for no node), whatever the number of duplicates and the order
\* of the nodes; an address observed on exactly one node maps to that node,
\* and FindAddress of that node returns the address.
C17_ResolverUniqueness ==
    finderPc = "done" =>
        \A a \in Observed :
            IF Cardinality(NodesWith(a)) >= 2
            THEN /\ ~FindDevice(devices, a).ok
                 /\ \A i \in 1..Len(matches) :
                       FindAddress(devices, SgOf(matches[i].d)).addr # a
            ELSE \A i \in NodesWith(a) :
                    /\ FindDevice(devices, a) = [dev |-> SgOf(matches[i].d), ok |-> TRUE]
                    /\ FindAddress(devices, SgOf(matches[i].d)) = [addr |-> a, ok |-> TRUE]

\* Three nodes were read: two carry the same address in different spellings,
\* the third has its own; the index holds the third only.
C17_Witness ==
    /\ finderPc = "done"
    /\ Len(matches) = 3
    /\ \E a, b \in Observed :
          /\ Cardinality(NodesWith(a)) = 2
          /\ \E i, j \in NodesWith(a) : matches[i].sas # matches[j].sas
          /\ Cardinality(NodesWith(b)) = 1
          /\ DOMAIN devices = {b}

\* C18: writeChangeReport never overwrites a change report: a call that
\* finds a file of its name returns an error and leaves the file as it was.
C18_NeverOverwrites ==
    [][(/\ Len(wlog') = Len(wlog) + 1
        /\ wlog'[Len(wlog')].path \in DOMAIN files)
           => (/\ wlog'[Len(wlog')].err # ""
               /\ files' = files)]_vars

\* The monitor has an output directory and the filesystem refuses its writes.
WriteFails == cfg.OutputDir /\ ~cfg.fsysWritable

\* C19: a failed write of current.json, current_parsed.json or a change
\* report is only logged. When the writes fail, a poll whose data parses goes
\* on to its return or to handleAlert, never to pollFailure: pollFailures
\* keeps its value, nothing is written, the notifier task of an alert is
\* started; and when the poll returns (directly or out of handleAlert) it
\* has succeeded, previousResults holds the new results, and after an alert
\* lastAlertHash holds the new hash.
C19_WriteFailureOnlyLogged ==
    /\ [][(/\ WriteFails
           /\ pc = "process"
           /\ pc' # pc
           /\ ~Parsed[ret].panic
           /\ ~Parsed[ret].err)
              => (/\ pc' \in {"select", "handleAlert"}
                  /\ pollFailures' = pollFailures
                  /\ currentFiles' = currentFiles
                  /\ changeReports' = changeReports
                  /\ (pc' = "select") =>
                        (succeeded' /\ previousResults' = ptr(Parsed[ret].m))
                  /\ (pc' = "handleAlert" /\ cfg.notifier) =>
                        (/\ tasks'.alert = tasks.alert + 1
                         /\ Deref(lastTask').kind = "alert"))]_vars
    /\ [][(WriteFails /\ pc = "handleAlert" /\ pc' # pc)
              => (/\ pc' = "select"
                  /\ succeeded'
                  /\ pollFailures' = pollFailures
                  /\ changeReports' = changeReports
                  /\ previousResults' = ptr(Parsed[ret].m)
                  /\ lastAlertHash' =
                        Diffed[PrevMap(previousResults), Parsed[ret].m].hash)]_vars

\* With failing writes a poll raised an alert and returned: the notifier
\* task was started and the hash stored, no file was written and no failure
\* counted.
C19_Witness ==
    /\ WriteFails
    /\ cfg.notifier
    /\ pc = "select"
    /\ lastOutcome = "alert"
    /\ succeeded
    /\ tasks.alert = 1
    /\ lastAlertHash # <<>>
    /\ changeReports = 0
    /\ currentFiles = {}
    /\ pollFailures = 0

\* C20 as stated: whenever the notifier task of an alert executes,
\* lastAlertHash already holds the hash of that alert's message.
C20_HashBeforeNotifier ==
    (/\ ~IsNil(lastTask)
     /\ lastTaskRan
     /\ Deref(lastTask).kind = "alert")
        => hashAtRun = Sha256Hex(Deref(lastTask).msg)

\* C20 amended: the polling task stores the new hash before the poll that
\* raised the alert returns. lastAlertHash changes only in the polling task's
\* step out of handleAlert, after that alert's notifier task was started;
\* whenever the polling task is outside handleAlert and the last notifier
\* task is an alert's, lastAlertHash is the hash of that alert's message; and
\* the notifier task's start changes neither lastAlertHash nor
\* previousResults.
C20_HashBeforePollReturns ==
    /\ [][(lastAlertHash' # lastAlertHash) =>
             (/\ pc = "handleAlert"
              /\ pc' = "select"
              /\ ~IsNil(lastTask)
              /\ Deref(lastTask).kind = "alert"
              /\ lastAlertHash' = Sha256Hex(Deref(lastTask).msg)
              /\ UNCHANGED <<lastTask, lastTaskRan, hashAtRun>>)]_vars
    /\ []((/\ pc # "handleAlert"
           /\ ~IsNil(lastTask)
           /\ Deref(lastTask).kind = "alert")
              => lastAlertHash = Sha256Hex(Deref(lastTask).msg))
    /\ [][(lastTaskRan' # lastTaskRan /\ lastTaskRan')
             => UNCHANGED <<lastAlertHash, previousResults, pc>>]_vars

\* The notifier task of the second alert began while lastAlertHash still
\* held the first alert's hash; the poll has since returned and stored the
\* new hash.
C20_Witness ==
    /\ ~IsNil(lastTask)
    /\ Deref(lastTask).kind = "alert"
    /\ lastTaskRan
    /\ hashAtRun # <<>>
    /\ hashAtRun # Sha256Hex(Deref(lastTask).msg)
    /\ pc = "select"
    /\ lastAlertHash = Sha256Hex(Deref(lastTask).msg)

\* C21: notifier isolation. The polling task's step that dispatches a
\* notification (a change alert or a back-off notification) only starts a
\* task: Notify has not begun when that step ends. Every step of a notifier
\* task (it begins, returns nil, returns an error, or panics) leaves the
\* polling task where it is and leaves done, the stop channel, pollFailures,
\* previousResults and lastAlertHash alone. And whatever the notifier task
\* does (it may stay running for ever), the polling task at its select can
\* take the next tick.
C21_NotifierIsolation ==
    /\ [][(tasks' # tasks) => (~lastTaskRan' /\ taskOutcome' = "")]_vars
    /\ [][(taskOutcome' # taskOutcome /\ taskOutcome' # "") =>
             UNCHANGED <<pc, done, stop, doneCloses, polls, pollFailures,
                         previousResults, lastAlertHash>>]_vars
    /\ []((pc = "select" /\ polls < MaxPolls) => ENABLED LoopTick)

\* A notifier task that began when an alert was dispatched is still inside
\* Notify while a later poll has come and gone; and one has panicked while
\* the polling task runs on.
C21_Witness ==
    /\ ~IsNil(lastTask)
    /\ Deref(lastTask).kind = "alert"
    /\ taskOutcome = "running"
    /\ lastOutcome = "nochange"
    /\ pc = "select"
    /\ ~done

Returned == rpc = "returned"

\* Every invocation of fn so far failed.
AllFailed == \A k \in 1..Len(rcalls) : rcalls[k].err # "nil"

\* C26: withRetries invokes fn at most attempts times; no invocation
\* follows a successful one; when an invocation succeeds withRetries
\* returns at once, a nil error and the number of invocations so far; and
\* after attempts failed invocations it returns the last one's error and
\* attempts.
C26_AttemptBudget ==
    /\ Len(rcalls) <= rcfg.Attempts
    /\ rattempt = Len(rcalls)
    /\ \A k \in 1..Len(rcalls) :
           (rcalls[k].err = "nil") =>
               /\ k = Len(rcalls)
               /\ Returned
               /\ rret = [attempt |-> k, err |-> "nil"]
    /\ (Returned /\ AllFailed /\ Len(rcalls) = rcfg.Attempts /\ rcalls # <<>>) =>
           rret = [attempt |-> rcfg.Attempts,
                   err |-> rcalls[Len(rcalls)].err]

\* The last of three permitted invocations failed as the two before it.
C26_Witness ==
    /\ Returned
    /\ rcfg.Attempts = MaxAttempts
    /\ Len(rcalls) = MaxAttempts
    /\ AllFailed
    /\ rret.err = "exit"

\* C27: withRetries looks at the context before every invocation and in
\* every wait between attempts. A cancelled context found at the head of an
\* iteration makes it return there; a wait can always end on the cancelled
\* context, and a return out of a wait is that; either return carries a
\* context error and the number of invocations made so far (none when the
\* context was cancelled from the start) and invokes fn no more.
C27_ContextObserved ==
    /\ [][(rpc = "loop" /\ rctx /\ ri < rcfg.Attempts) =>
             (/\ rpc' = "returned"
              /\ rret' = [attempt |-> Len(rcalls), err |-> "context"]
              /\ rcalls' = rcalls)]_vars
    /\ [][(rpc = "wait" /\ rpc' = "returned") =>
             (/\ rctx
              /\ rret' = [attempt |-> Len(rcalls), err |-> "context"]
              /\ rcalls' = rcalls)]_vars
    /\ []((rpc = "wait" /\ rctx) => ENABLED WaitCancelled)
    /\ []((Returned /\ rret.err = "context") =>
             (rctx /\ rret.attempt = Len(rcalls)))
    /\ [][(rpc = "returned") => (rcalls' = rcalls /\ rpc' = rpc)]_vars

\* The context was cancelled after two invocations, and withRetries
\* returned a context error and 2 with an attempt still left.
C27_Witness ==
    /\ Returned
    /\ rret = [attempt |-> 2, err |-> "context"]
    /\ rcfg.Attempts = 3
    /\ Len(rcalls) = 2
    /\ ~rcalls[2].cancelled

\* C28: withRetries waits only between attempts. A wait is entered only with
\* an attempt left; a run that used up its n = attempts attempts entered
\* n-1 waits; with attempts = 1 a failed invocation is the only one, no wait
\* follows it and its error is returned.
C28_WaitsBetweenAttempts ==
    /\ (rpc = "wait") => (Len(rcalls) < rcfg.Attempts)
    /\ rwaits <= Len(rcalls)
    /\ rcalls # <<>> => rwaits < rcfg.Attempts
    /\ (Returned /\ AllFailed /\ Len(rcalls) = rcfg.Attempts /\ rcalls # <<>>) =>
           rwaits = rcfg.Attempts - 1
    /\ (rcfg.Attempts = 1 /\ rcalls # <<>> /\ AllFailed) =>
           /\ Len(rcalls) = 1
           /\ rwaits = 0
           /\ rpc \in {"loop", "returned"}
           /\ Returned => rret = [attempt |-> 1, err |-> rcalls[1].err]

\* One permitted attempt failed: withRetries returned its error, no wait.
C28_Witness ==
    /\ Returned
    /\ rcfg.Attempts = 1
    /\ Len(rcalls) = 1
    /\ rret = [attempt |-> 1, err |-> "exit"]
    /\ rwaits = 0

\* An invocation whose child succeeded and printed no valid JSON.
NotJSON(call) == call.exit = "nil" /\ ~JsonValid(call.stdout)

\* C29: with ExpectJSON set an attempt whose child succeeded without
\* printing valid JSON is a failed attempt of the invalid-JSON kind, logged
\* and followed by a wait or the next iteration as any failed attempt; and
\* when every permitted attempt ended so, Run returns an error of that kind
\* with the last attempt's stdout and stderr.
C29_InvalidJSONRetried ==
    /\ [](rcfg.ExpectJSON =>
             \A k \in 1..Len(rcalls) :
                 NotJSON(rcalls[k]) => rcalls[k].err = "invalidJSON")
    /\ [][(rcfg.ExpectJSON /\ rcalls' # rcalls /\ NotJSON(rcalls'[Len(rcalls')])) =>
             (/\ rlogged' = rlogged + 1
              /\ rpc' = IF Len(rcalls') < rcfg.Attempts THEN "wait" ELSE "loop"
              /\ rret' = <<>>)]_vars
    /\ []((/\ rcfg.ExpectJSON
           /\ Returned
           /\ rcalls # <<>>
           /\ Len(rcalls) = rcfg.Attempts
           /\ \A k \in 1..Len(rcalls) : NotJSON(rcalls[k]))
              => rrun = [stdout |-> rcalls[Len(rcalls)].stdout,
                         stderr |-> rcalls[Len(rcalls)].stderr,
                         err |-> "invalidJSON"])

\* Two attempts printed different texts that are not JSON; Run returned the
\* second one's output.
C29_Witness ==
    /\ rcfg.ExpectJSON
    /\ Returned
    /\ rcfg.Attempts = 2
    /\ Len(rcalls) = 2
    /\ NotJSON(rcalls[1])
    /\ NotJSON(rcalls[2])
    /\ rcalls[1].stdout # rcalls[2].stdout
    /\ rcalls[2].stderr # <<>>
    /\ rrun.stdout = rcalls[2].stdout
    /\ rrun.err = "invalidJSON"

\* An element without element_type.i (also: without an element_type object)
\* or without element_number.
LacksIdentity(el) ==
    \/ IsNil(el.ElementType)
    \/ IsNil(Deref(el.ElementType).I)
    \/ IsNil(el.ElementNumber)

\* C22: when parseSES has returned a map, every entry of the map comes from
\* an element that has element_type.i and element_number: the entry's key is
\* built from that element's type and number, never from a defaulted one.
C22_ParseSkipRule ==
    (ppc = "returned" /\ ~pout.err /\ ~pout.panic) =>
        \A k \in DOMAIN pout.m :
            \E i \in 1..Len(pdoc.elements) :
                /\ ~LacksIdentity(pdoc.elements[i])
                /\ k = Itoa(Deref(Deref(pdoc.elements[i].ElementType).I))
                         \o <<"#">> \o Itoa(Deref(pdoc.elements[i].ElementNumber))

\* C23: parseSES fails only on a document json.Unmarshal rejects; for every
\* well-formed document it returns a map, without an error and without a
\* panic.
C23_ParseSucceeds ==
    ppc = "returned" =>
        /\ pout.err <=> ~pdoc.valid
        /\ ~pout.panic

\* Two optional integers differ: one is absent and the other present, or
\* both are present with different values.
IntDiffers(a, b) ==
    \/ IsNil(a) # IsNil(b)
    \/ ~IsNil(a) /\ Deref(a) # Deref(b)

\* Two optional texts differ beyond the case of their letters.
TextDiffers(a, b) ==
    \/ IsNil(a) # IsNil(b)
    \/ ~IsNil(a) /\ ToLower(Deref(a)) # ToLower(Deref(b))

\* Two Results are unequal on status, statusDesc, prdFail, disabled or swap.
Unequal(p, c) ==
    \/ IntDiffers(p.Status, c.Status)
    \/ TextDiffers(p.StatusDesc, c.StatusDesc)
    \/ IntDiffers(p.PrdFail, c.PrdFail)
    \/ IntDiffers(p.Disabled, c.Disabled)
    \/ IntDiffers(p.Swap, c.Swap)

WithoutMetrics(r) ==
    [r EXCEPT !.Temperature = NilPtr, !.Voltage = NilPtr,
              !.Amperage = NilPtr, !.TypeDesc = NilPtr]

\* Two result maps that differ, and only in temperature, voltage, current or
\* type text.
MetricOnly(prev, curr) ==
    /\ prev # curr
    /\ DOMAIN prev = DOMAIN curr
    /\ \A k \in DOMAIN prev : WithoutMetrics(prev[k]) = WithoutMetrics(curr[k])

C31_BackoffWaitInterrupted ==
    /\ []((pc = "backoffWait" /\ (stop \/ ctxDone)) => ENABLED BackoffInterrupted)
    /\ [](pc = "backoffWait" => pollFailures = cfg.PollBackoffAfter)
    /\ [][(pc = "backoffWait" /\ pc' # pc) =>
             /\ pc' = "select"
             /\ \/ pollFailures' = 0 /\ sinceReset' = 0
                \/ /\ stop \/ ctxDone
                   /\ pollFailures' = cfg.PollBackoffAfter
                   /\ sinceReset' = sinceReset]_vars
    /\ ((pc = "backoffWait" /\ (stop \/ ctxDone)) ~> done)

\* A monitor that waits on back-off was stopped in a wait: done is closed
\* and pollFailures is still the threshold.
C31_Witness ==
    /\ ~cfg.PollBackoffStopMonitor
    /\ cfg.PollBackoffAfter = 2
    /\ pollFailures = 2
    /\ backoffWaits = 1
    /\ pc = "done"
    /\ done

\* What monitor j is: where its goroutine is, its stop and done signals,
\* its panic, its polls and its deviceMonitorState.
MonitorOf(j) ==
    <<mpc[j], mstop[j], mdoneCloses[j], mpanicked[j], mpolls[j],
      mstate[StateOf(j)]>>

\* The step is one of monitor k's goroutine.
StepOfMonitor(k) ==
    \/ mpc'[k] # mpc[k]
    \/ mpolls'[k] # mpolls[k]
    \/ mpanicked'[k] # mpanicked[k]

\* C32: the monitors of a supervisor are isolated from each other. A step
\* of one monitor (a poll that succeeds or fails, the failure counted, the
\* monitor stopping itself at the threshold, a back-off wait begun or ended,
\* a panic, the exit) changes nothing of another monitor: not where it is,
\* not its stop and done signals, not its pollFailures, previousResults and
\* lastAlertHash. And a monitor in its loop with polls left can poll,
\* whatever the others are doing.
C32_MonitorIsolation ==
    /\ [][\A j \in DOMAIN monitors, k \in DOMAIN monitors :
             (j # k /\ StepOfMonitor(k)) => (MonitorOf(j)' = MonitorOf(j))]_vars
    /\ [](\A j \in DOMAIN monitors :
             (mpc[j] = "loop" /\ mpolls[j] < MaxSiblingPolls)
                 => ENABLED MonPollFail(j))
    /\ [](\A j \in DOMAIN monitors :
             (mpc[j] = "loop" /\ mpolls[j] < MaxSiblingPolls /\ ~ctxDone)
                 => ENABLED MonPollOk(j, DocOK))

\* One monitor has panicked and is done, with its stop signal closed; the
\* other has polled twice since, counted no failure, and is in its loop.
C32_Witness ==
    /\ mpanicked[P_sg0]
    /\ mpc[P_sg0] = "done"
    /\ mstop[P_sg0]
    /\ mstate[StateOf(P_sg0)].pollFailures = 1
    /\ mpc[P_sg1] = "loop"
    /\ ~mstop[P_sg1]
    /\ mpolls[P_sg1] = MaxSiblingPolls
    /\ mstate[StateOf(P_sg1)].pollFailures = 0
    /\ ~IsNil(mstate[StateOf(P_sg1)].previousResults)
    /\ mstate[StateOf(P_sg1)].lastAlertHash # <<>>

\* C33: parseSES, given the JSON that writeCurrentData marshals from a
\* Result map for current_parsed.json, returns a map with the same keys and
\* equal entries.
C33_RoundTrip ==
    (tpc = "reparsed") =>
        /\ ~tback.err
        /\ ~tback.panic
        /\ DOMAIN tback.m = DOMAIN tmap
        /\ \A k \in DOMAIN tmap : tback.m[k] = tmap[k]

\* C34: pollFailure called with the stop signal closed or the context
\* cancelled returns at once: pollFailures and the count of accounted
\* failures stay, no line is logged, no notifier task is started and no
\* back-off wait begun.
C34_FailureAfterStopIgnored ==
    [][(pc = "pollFailure" /\ (stop \/ ctxDone) /\ pc' # pc) =>
          /\ pc' = "select"
          /\ UNCHANGED <<pollFailures, counted, sinceReset, plainLogs,
                         backoffLogs, backoffWaits, tasks, lastTask, stop,
                         stopCloses>>]_vars

\* A poll failed on an undecodable document after Stop was called, with the
\* context not cancelled; the failure was not counted.
C34_Witness ==
    /\ pc = "select"
    /\ lastOutcome = "parseerr"
    /\ stop
    /\ ~ctxDone
    /\ counted = 0
    /\ plainLogs = 0
    /\ backoffLogs = 0

\* The monitor's state before and after a step.
DedupState == mstate[StateOf(P_sg0)]

\* The changes, message and hash of a poll that replaced previousResults in
\* the step.
DedupDiff ==
    Diffed[PrevMap(DedupState.previousResults), Deref(DedupState'.previousResults)]

\* C35: with the monitor's state changed by its own polls only, a successful
\* poll that is not the first and finds changes raises an alert: the hash
\* of its message is not the one of the alert before it, so the suppression
\* branch is not taken, and the hash is stored.
C35_NoSuppression ==
    [][(/\ mpolls' # mpolls
        /\ ~IsNil(DedupState.previousResults)
        /\ DedupState'.previousResults # DedupState.previousResults
        /\ DedupDiff.changes # {})
           => /\ ~AlertSuppressed(DedupState.lastAlertHash, DedupDiff.hash)
              /\ DedupState'.lastAlertHash = DedupDiff.hash]_vars

\* After five polls the previous results are the critical status and the
\* last alert is the one for OK turning critical.
C35_Witness ==
    /\ mpolls[P_sg0] >= 5
    /\ DedupState.previousResults = ptr(Parsed[DocCritical].m)
    /\ DedupState.lastAlertHash = Diffed[Parsed[DocOK].m, Parsed[DocCritical].m].hash

\* C36: pollFailures is never below 0 nor above PollBackoffAfter, and it
\* equals PollBackoffAfter only in the back-off wait, or with the stop
\* signal closed or the context cancelled.
C36_FailureCounterBounds ==
    /\ pollFailures \in 0..cfg.PollBackoffAfter
    /\ (pollFailures = cfg.PollBackoffAfter) =>
           (pc = "backoffWait" \/ stop \/ ctxDone)

\* The second of two failures has taken the monitor into the back-off wait.
C36_Witness ==
    /\ cfg.PollBackoffAfter = 2
    /\ pollFailures = 2
    /\ pc = "backoffWait"
    /\ ~stop
    /\ ~ctxDone

\* C37: when done is closed the stop signal is closed too. done is closed
\* by the task's deferred close only, after the deferred Stop has run, on
\* the return out of the loop and on a panic alike, and it is closed once.
C37_DoneImpliesStop ==
    /\ [](done => (stop /\ once))
    /\ [](doneCloses <= 1)
    /\ [](done <=> doneCloses = 1)
    /\ [][(doneCloses' # doneCloses) =>
             (pc = "deferClose" /\ stop /\ stop')]_vars

\* A poll panicked; nobody called Stop or cancelled the context; the
\* deferred Stop closed the stop signal and done is closed.
C37_Witness ==
    /\ done
    /\ panicked
    /\ stop
    /\ stopCloses = 1
    /\ stopCalls = 0
    /\ ~ctxDone

\* C38: for maps keyed by the type and number of their values, every Change
\* of rowsDiff has ID = "<Type>#<TypeNum>", and its Type and TypeNum are
\* those of the element on whichever side it is present: for an element
\* that disappeared, for one that appeared, and for type 0 and number 0.
C38_ChangeIdentity ==
    dpc = "returned" =>
        \A ch \in dout :
            /\ ch.ID = keyFor([Type |-> ch.Type, TypeNum |-> ch.TypeNum])
            /\ ~IsNil(ch.Before) =>
                   /\ Deref(ch.Before).Type = ch.Type
                   /\ Deref(ch.Before).TypeNum = ch.TypeNum
            /\ ~IsNil(ch.After) =>
                   /\ Deref(ch.After).Type = ch.Type
                   /\ Deref(ch.After).TypeNum = ch.TypeNum

\* Element 15#1 disappeared and element 0#0 appeared: two changes, one with
\* its type and number taken from prev, one with type 0 and number 0.
C38_Witness ==
    /\ dpc = "returned"
    /\ \E ch \in dout : /\ IsNil(ch.After)
                        /\ ch.Type = 15
                        /\ ch.TypeNum = 1
                        /\ ch.ID = <<"1", "5", "#", "1">>
    /\ \E ch \in dout : /\ IsNil(ch.Before)
                        /\ ~IsNil(ch.After)
                        /\ ch.Type = 0
                        /\ ch.TypeNum = 0
                        /\ ch.ID = <<"0", "#", "0">>

\* The monitor's task is in a poll that has not parsed anything yet, or in
\* pollFailure (its back-off wait included).
InFetchOrFailure == pc \in {"fetch", "retryWait", "pollFailure", "backoffWait"}

\* C39: a poll that fails in the fetch or in the parse, and the pollFailure
\* that follows it (a back-off wait included), leave previousResults and
\* lastAlertHash as they were and write no snapshot file; so the results
\* of the last successful poll are still there for the next one to be
\* diffed against.
C39_FailedPollKeepsState ==
    /\ [][(InFetchOrFailure \/ pc' = "pollFailure")
            => UNCHANGED <<previousResults, lastAlertHash, currentFiles>>]_vars
    /\ [](succeeded => ~IsNil(previousResults))

\* The device answered OK, then a poll failed and the monitor sat out a
\* back-off, and now the device answers critical: the poll after the outage
\* diffs OK against critical and starts the alert with that message.
C39_Witness ==
    /\ pc = "handleAlert"
    /\ succeeded
    /\ lastOutcome \in {"fetcherr", "parseerr"}
    /\ backoffWaits = 1
    /\ previousResults = ptr(Parsed[DocOK].m)
    /\ ret = DocCritical
    /\ ~IsNil(lastTask)
    /\ Deref(lastTask).kind = "alert"
    /\ Deref(lastTask).msg = Diffed[Parsed[DocOK].m, Parsed[DocCritical].m].msg

\* C40: a started monitor whose stop signal is closed (by Stop or by stop
\* on back-off) or whose context is cancelled closes its Done eventually,
\* also while a notifier task it started is running, and whether or not
\* that task ever returns: Done is closed by the monitor's own task, which
\* joins no notifier.
C40_DoneDespiteNotifier ==
    /\ (pc # "idle" /\ (stop \/ ctxDone)) ~> done
    /\ (pc # "idle" /\ (stop \/ ctxDone) /\ taskOutcome = "running") ~> done
    /\ [](pc = "deferClose" => ENABLED DeferCloseDone)

\* The monitor stopped itself at the back-off threshold; nobody called Stop
\* or cancelled. The notifier task of that back-off is still running and
\* Done is closed.
C40_Witness ==
    /\ done
    /\ cfg.PollBackoffStopMonitor
    /\ stopCalls = 0
    /\ ~ctxDone
    /\ ~IsNil(lastTask)
    /\ Deref(lastTask).kind = "backoff"
    /\ taskOutcome = "running"

====
